---- MODULE Spec2Model ----
(***************************************************************************)
(* Light-client support of go-eth2-client: the textual (JSON) codecs of    *)
(* the per-fork records, the versioned envelopes, and the HTTP content     *)
(* negotiation layer that picks the decoder from the response metadata.    *)
(*                                                                         *)
(* A JSON string is a sequence of one-character strings.  A JSON value of  *)
(* a pointer field is "null" (absent or null), "bad" (a value of the wrong *)
(* JSON type, which makes encoding/json fail) or the value itself.         *)
(***************************************************************************)
EXTENDS Integers, Sequences, FiniteSets, TLC

(***************************************************************************)
(* Bounds of the model.                                                    *)
(***************************************************************************)
\* largest number of elements in an updates response list
MaxUpdates == 3
MaxClients == 2
\* largest count, and largest start period, of an updates request
MaxCount == 1

(***************************************************************************)
(* Program constants.                                                      *)
(***************************************************************************)
\* decoded width of one branch element, in bytes
HashLen == 32
\* declared element counts of the branches (ssz-size tags)
SyncCommitteeBranchLen == 5
FinalityBranchLen == 6
ExecutionBranchLen == 4

(***************************************************************************)
(* Errors.  Every error value is a record of the same shape; NoErr is the  *)
(* nil error.  field/index qualify the codec errors.                       *)
(***************************************************************************)
Err(kind, field, index) == [kind |-> kind, field |-> field, index |-> index]
NoErr == Err("nil", "", -1)
ErrUnsupportedVersion(v) == Err("unsupported version", v, -1)
ErrUnhandledContentType(ct) == Err("unhandled content type", ct, -1)
ErrRequest == Err("failed to request", "", -1)
ErrParseJSON == Err("failed to parse JSON", "", -1)
ErrInvalidJSON == Err("invalid JSON", "", -1)
ErrMissing(f) == Err("missing", f, -1)
ErrEmpty(f) == Err("length cannot be 0", f, -1)
ErrElemMissing(f, i) == Err("element missing", f, i)
ErrInvalidValue(f, i) == Err("invalid value", f, i)
ErrInvalidLength(f, i) == Err("invalid length", f, i)
ErrSlot == Err("invalid value for slot", "signature_slot", -1)
ErrSSZ == Err("ssz", "", -1)

(***************************************************************************)
(* encoding/hex and strings.TrimPrefix, as used by the branch decoders.    *)
(***************************************************************************)
HexDigits == <<"0","1","2","3","4","5","6","7","8","9","a","b","c","d","e","f">>
UpperHexDigits == <<"0","1","2","3","4","5","6","7","8","9","A","B","C","D","E","F">>

HexChars == {HexDigits[k] : k \in 1..16} \cup {UpperHexDigits[k] : k \in 1..16}
HexValues ==
  [c \in HexChars |-> (CHOOSE k \in 1..16 : HexDigits[k] = c \/ UpperHexDigits[k] = c) - 1]
IsHexChar(c) == c \in HexChars
HexVal(c) == HexValues[c]

\* strings.TrimPrefix(s, "0x")
TrimPrefix0x(s) ==
  IF Len(s) >= 2 /\ s[1] = "0" /\ s[2] = "x" THEN SubSeq(s, 3, Len(s)) ELSE s

\* number of leading two-digit pairs of s that are both hex digits
GoodPairs(s) ==
  LET badPairs == {k \in 1..(Len(s) \div 2) :
                     ~(IsHexChar(s[2 * k - 1]) /\ IsHexChar(s[2 * k]))}
  IN IF badPairs = {} THEN Len(s) \div 2
     ELSE (CHOOSE k \in badPairs : \A m \in badPairs : k <= m) - 1

\* hex.DecodeString: ok is FALSE for an odd length or a character that is
\* not a hex digit, and bytes then holds the bytes decoded before the error;
\* otherwise bytes holds one number 0..255 per two digits.
HexDecodeString(s) ==
  [ok |-> Len(s) % 2 = 0 /\ \A k \in 1..Len(s) : IsHexChar(s[k]),
   bytes |-> [k \in 1..GoodPairs(s) |->
                16 * HexVal(s[2 * k - 1]) + HexVal(s[2 * k])]]

\* the two hex digits of each byte of b, taken from digits
HexOf(b, digits) ==
  [k \in 1..(2 * Len(b)) |->
     IF k % 2 = 1 THEN digits[(b[(k + 1) \div 2] \div 16) + 1]
     ELSE digits[(b[k \div 2] % 16) + 1]]

\* the rendering of %#X: upper-case hex
SprintfHex_Upper(b) ==
  IF Len(b) = 0 THEN <<>> ELSE <<"0", "x">> \o HexOf(b, UpperHexDigits)

\* fmt.Sprintf("%#x", b): 0x followed by lowercase hex; nothing for no byte
SprintfHex(b) ==
  IF Len(b) = 0 THEN <<>> ELSE <<"0", "x">> \o HexOf(b, HexDigits)

(***************************************************************************)
(* strconv.ParseUint(s, 10, 64) and fmt.Sprintf("%d", slot).  A slot is    *)
(* kept as its canonical decimal digits (no leading zero), so that the     *)
(* 64-bit range is compared digit by digit.                                *)
(***************************************************************************)
DecDigits == <<"0","1","2","3","4","5","6","7","8","9">>
IsDecChar(c) == \E k \in 1..10 : DecDigits[k] = c
DecVal(c) == (CHOOSE k \in 1..10 : DecDigits[k] = c) - 1
\* 2^64 - 1
MaxUint64Digits ==
  <<"1","8","4","4","6","7","4","4","0","7","3","7","0","9","5","5","1","6","1","5">>

RECURSIVE StripZeros(_)
StripZeros(s) ==
  IF Len(s) > 1 /\ s[1] = "0" THEN StripZeros(Tail(s)) ELSE s

\* a and b are canonical digit sequences; TRUE when a <= b as numbers
RECURSIVE DigitsLeq(_, _)
DigitsLeq(a, b) ==
  IF Len(a) # Len(b) THEN Len(a) < Len(b)
  ELSE IF Len(a) = 0 THEN TRUE
  ELSE IF DecVal(a[1]) # DecVal(b[1]) THEN DecVal(a[1]) < DecVal(b[1])
  ELSE DigitsLeq(Tail(a), Tail(b))

\* ParseUint without the test of the 64-bit range
ParseUint_NoRange(s) ==
  IF Len(s) = 0 \/ \E k \in 1..Len(s) : ~IsDecChar(s[k])
  THEN [ok |-> FALSE, slot |-> <<"0">>]
  ELSE [ok |-> TRUE, slot |-> StripZeros(s)]

ParseUint(s) ==
  IF Len(s) = 0 \/ \E k \in 1..Len(s) : ~IsDecChar(s[k])
  THEN [ok |-> FALSE, slot |-> <<"0">>]
  ELSE IF ~DigitsLeq(StripZeros(s), MaxUint64Digits)
  THEN [ok |-> FALSE, slot |-> <<"0">>]
  ELSE [ok |-> TRUE, slot |-> StripZeros(s)]

(***************************************************************************)
(* JSON values and decoded values.                                         *)
(*   JNull        absent member or null                                    *)
(*   JBad         a value of a JSON type the Go field cannot take          *)
(*   JStr(chars)  a string, JArr(seq) an array, JObj(fields) an object     *)
(* Externally defined structures (beacon block header, sync committee,     *)
(* sync aggregate, execution payload header) are opaque: JObj(id).         *)
(* A decoded pointer is Nil or Ptr(value).                                 *)
(***************************************************************************)
JNull == [t |-> "null"]
JBad == [t |-> "bad"]
JStr(chars) == [t |-> "str", v |-> chars]
JArr(elems) == [t |-> "arr", v |-> elems]
JObj(fields) == [t |-> "obj", v |-> fields]

Nil == [nil |-> TRUE]
Ptr(x) == [nil |-> FALSE, v |-> x]

\* encoding/json into a pointer to an opaque structure
OpaqueBad(j) == j.t \notin {"null", "obj"}
OpaquePtr(j) == IF j.t = "obj" THEN Ptr(j.v) ELSE Nil

\* encoding/json into a string field: null leaves the zero value ""
StringBad(j) == j.t \notin {"null", "str"}
StringOf(j) == IF j.t = "str" THEN j.v ELSE <<>>

\* encoding/json into a []string field: nil for null, else the strings
StringsBad(j) ==
  \/ j.t \notin {"null", "arr"}
  \/ j.t = "arr" /\ \E k \in 1..Len(j.v) : StringBad(j.v[k])
StringsNil(j) == j.t # "arr"
StringsOf(j) == IF j.t = "arr" THEN [k \in 1..Len(j.v) |-> StringOf(j.v[k])] ELSE <<>>

(***************************************************************************)
(* The loop that decodes one branch field.  checkMissing tells whether the *)
(* record type tests each element against the empty string first.          *)
(***************************************************************************)
\* ElemErr rejecting only an element longer than 32 bytes
ElemErr_AtMost32(field, s, i, checkMissing) ==
  LET d == HexDecodeString(TrimPrefix0x(s))
  IN IF checkMissing /\ s = <<>> THEN ErrElemMissing(field, i)
     ELSE IF ~d.ok THEN ErrInvalidValue(field, i)
     ELSE IF Len(d.bytes) > HashLen THEN ErrInvalidLength(field, i)
     ELSE NoErr

ElemErr(field, s, i, checkMissing) ==
  LET d == HexDecodeString(TrimPrefix0x(s))
  IN IF checkMissing /\ s = <<>> THEN ErrElemMissing(field, i)
     ELSE IF ~d.ok THEN ErrInvalidValue(field, i)
     ELSE IF Len(d.bytes) # HashLen THEN ErrInvalidLength(field, i)
     ELSE NoErr

\* 32 zero bytes: an element of a fixed-width branch not yet copied into
ZeroHash == [k \in 1..HashLen |-> 0]

\* the error of each element of the branch, in order
ElemErrs(field, strs, fixed) ==
  [k \in 1..Len(strs) |-> ElemErr(field, strs[k], k - 1, ~fixed)]

\* FirstBad stopping at the last failing element
FirstBad_Last(errs) ==
  IF \A k \in 1..Len(errs) : errs[k] = NoErr THEN 0
  ELSE CHOOSE k \in 1..Len(errs) :
         errs[k] # NoErr /\ \A m \in (k + 1)..Len(errs) : errs[m] = NoErr

\* index of the element the loop stops at, 0 when it runs through
FirstBad(errs) ==
  IF \A k \in 1..Len(errs) : errs[k] = NoErr THEN 0
  ELSE CHOOSE k \in 1..Len(errs) :
         errs[k] # NoErr /\ \A m \in 1..(k - 1) : errs[m] = NoErr

\* the target's branch field when the loop has stopped at element bad.  The
\* two codings differ:
\*   [][]byte   (fixed = FALSE) tests each element against "" and assigns
\*              the decoded bytes before it checks their length;
\*   [][32]byte (fixed = TRUE) copies an element only after both checks.
BranchAfter(strs, bad, fixed) ==
  [k \in 1..Len(strs) |->
     IF bad = 0 \/ k < bad \/ (k = bad /\ ~fixed /\ strs[k] # <<>>)
     THEN HexDecodeString(TrimPrefix0x(strs[k])).bytes
     ELSE IF fixed THEN ZeroHash ELSE <<>>]

BranchLoopResult(strs, errs, bad, fixed) ==
  [err |-> IF bad = 0 THEN NoErr ELSE errs[bad],
   branch |-> BranchAfter(strs, bad, fixed)]
BranchLoop(strs, errs, fixed) == BranchLoopResult(strs, errs, FirstBad(errs), fixed)

\* DecodeBranch that also holds finality_branch to its declared element count
DecodeBranch_EnforceCount(field, j, old, fixed) ==
  IF StringsNil(j) THEN [err |-> ErrMissing(field), branch |-> old]
  ELSE IF Len(StringsOf(j)) = 0 THEN [err |-> ErrEmpty(field), branch |-> old]
  ELSE IF field = "finality_branch" /\ Len(StringsOf(j)) # FinalityBranchLen
       THEN [err |-> ErrInvalidLength(field, -1), branch |-> old]
  ELSE BranchLoop(StringsOf(j), ElemErrs(field, StringsOf(j), fixed), fixed)

\* DecodeBranch reporting an empty array as a missing member
DecodeBranch_EmptyIsMissing(field, j, old, fixed) ==
  IF StringsNil(j) \/ Len(StringsOf(j)) = 0
  THEN [err |-> ErrMissing(field), branch |-> old]
  ELSE BranchLoop(StringsOf(j), ElemErrs(field, StringsOf(j), fixed), fixed)

\* err and the value of the target's branch field after the nil test, the
\* length test, the allocation and the loop; old is the value before the call
DecodeBranch(field, j, old, fixed) ==
  IF StringsNil(j) THEN [err |-> ErrMissing(field), branch |-> old]
  ELSE IF Len(StringsOf(j)) = 0 THEN [err |-> ErrEmpty(field), branch |-> old]
  ELSE BranchLoop(StringsOf(j), ElemErrs(field, StringsOf(j), fixed), fixed)

\* member name of a JSON object; an absent member reads as null
Field(input, name) == IF input.t = "obj" THEN input.v[name] ELSE JNull

(***************************************************************************)
(* LightClientHeader.  Shape "altair" is shared by the Altair and          *)
(* Bellatrix forks; shape "capella" adds the execution payload header and  *)
(* its inclusion branch.                                                   *)
(***************************************************************************)
ZeroHeader(shape) ==
  IF shape = "altair" THEN [Beacon |-> Nil]
  ELSE [Beacon |-> Nil, Execution |-> Nil, ExecutionBranch |-> <<>>]

AltairLightClientHeader_UnmarshalJSON(l, input) ==
  LET bad == input.t \notin {"null", "obj"} \/ OpaqueBad(Field(input, "beacon"))
      beacon == OpaquePtr(Field(input, "beacon"))
  IN IF bad THEN [err |-> ErrInvalidJSON, l |-> l]
     ELSE IF beacon = Nil THEN [err |-> ErrMissing("beacon"), l |-> l]
     ELSE [err |-> NoErr, l |-> [l EXCEPT !.Beacon = beacon]]

\* the checks and assignments that follow json.Unmarshal: bad is its
\* failure, the other arguments are the members it read
CapellaLightClientHeader_unpack(l, bad, beacon, execution, b) ==
  IF bad THEN [err |-> ErrInvalidJSON, l |-> l]
  ELSE IF beacon = Nil THEN [err |-> ErrMissing("beacon"), l |-> l]
  ELSE IF execution = Nil
       THEN [err |-> ErrMissing("execution"), l |-> [l EXCEPT !.Beacon = beacon]]
  ELSE [err |-> b.err,
        l |-> [l EXCEPT !.Beacon = beacon, !.Execution = execution,
                        !.ExecutionBranch = b.branch]]

CapellaLightClientHeader_UnmarshalJSON(l, input) ==
  CapellaLightClientHeader_unpack(
    l,
    \/ input.t \notin {"null", "obj"}
    \/ OpaqueBad(Field(input, "beacon"))
    \/ OpaqueBad(Field(input, "execution"))
    \/ StringsBad(Field(input, "execution_branch")),
    OpaquePtr(Field(input, "beacon")),
    OpaquePtr(Field(input, "execution")),
    DecodeBranch("execution_branch", Field(input, "execution_branch"),
                 l.ExecutionBranch, FALSE))

LightClientHeader_UnmarshalJSON(shape, l, input) ==
  IF shape = "altair" THEN AltairLightClientHeader_UnmarshalJSON(l, input)
  ELSE CapellaLightClientHeader_UnmarshalJSON(l, input)

\* encoding/json into a *LightClientHeader member: nil for null, else a new
\* header filled by its UnmarshalJSON, whose error fails the outer parse
HeaderBad(shape, j) ==
  j.t # "null" /\ LightClientHeader_UnmarshalJSON(shape, ZeroHeader(shape), j).err # NoErr
HeaderPtr(shape, j) ==
  IF j.t = "null" THEN Nil
  ELSE Ptr(LightClientHeader_UnmarshalJSON(shape, ZeroHeader(shape), j).l)

(***************************************************************************)
(* The four records.  l is the target before the call; the result holds    *)
(* the error and the target after the call (fields are assigned one by one *)
(* as the checks pass).                                                    *)
(***************************************************************************)
ZeroSlot == <<"0">>

ZeroBootstrap ==
  [Header |-> Nil, CurrentSyncCommittee |-> Nil, CurrentSyncCommitteeBranch |-> <<>>]
ZeroUpdate ==
  [AttestedHeader |-> Nil, NextSyncCommittee |-> Nil, NextSyncCommitteeBranch |-> <<>>,
   FinalizedHeader |-> Nil, FinalityBranch |-> <<>>, SyncAggregate |-> Nil,
   SignatureSlot |-> ZeroSlot]
ZeroFinalityUpdate ==
  [AttestedHeader |-> Nil, FinalizedHeader |-> Nil, FinalityBranch |-> <<>>,
   SyncAggregate |-> Nil, SignatureSlot |-> ZeroSlot]
ZeroOptimisticUpdate ==
  [AttestedHeader |-> Nil, SyncAggregate |-> Nil, SignatureSlot |-> ZeroSlot]

\* In each record the checks and assignments that follow json.Unmarshal are
\* an operator of their own: bad is the failure of json.Unmarshal, the other
\* arguments are the members it read and what the branch loop and ParseUint
\* make of them.
LightClientBootstrap_unpack(l, bad, h, c, b) ==
  IF bad THEN [err |-> ErrInvalidJSON, l |-> l]
  ELSE IF h = Nil THEN [err |-> ErrMissing("header"), l |-> l]
  ELSE IF c = Nil
       THEN [err |-> ErrMissing("current_sync_committee"), l |-> [l EXCEPT !.Header = h]]
  ELSE [err |-> b.err,
        l |-> [l EXCEPT !.Header = h, !.CurrentSyncCommittee = c,
                        !.CurrentSyncCommitteeBranch = b.branch]]

LightClientBootstrap_UnmarshalJSON(shape, l, input) ==
  LightClientBootstrap_unpack(
    l,
    \/ input.t \notin {"null", "obj"}
    \/ HeaderBad(shape, Field(input, "header"))
    \/ OpaqueBad(Field(input, "current_sync_committee"))
    \/ StringsBad(Field(input, "current_sync_committee_branch")),
    HeaderPtr(shape, Field(input, "header")),
    OpaquePtr(Field(input, "current_sync_committee")),
    DecodeBranch("current_sync_committee_branch",
                 Field(input, "current_sync_committee_branch"),
                 l.CurrentSyncCommitteeBranch, FALSE))

LightClientUpdate_unpack(l, bad, a, n, nb, f, fb, g, s, slot) ==
  IF bad THEN [err |-> ErrInvalidJSON, l |-> l]
  ELSE IF a = Nil THEN [err |-> ErrMissing("attested_header"), l |-> l]
  ELSE IF n = Nil
       THEN [err |-> ErrMissing("next_sync_committee"),
             l |-> [l EXCEPT !.AttestedHeader = a]]
  ELSE IF nb.err # NoErr
       THEN [err |-> nb.err,
             l |-> [l EXCEPT !.AttestedHeader = a, !.NextSyncCommittee = n,
                             !.NextSyncCommitteeBranch = nb.branch]]
  ELSE IF f = Nil
       THEN [err |-> ErrMissing("finalized_header"),
             l |-> [l EXCEPT !.AttestedHeader = a, !.NextSyncCommittee = n,
                             !.NextSyncCommitteeBranch = nb.branch]]
  ELSE IF fb.err # NoErr
       THEN [err |-> fb.err,
             l |-> [l EXCEPT !.AttestedHeader = a, !.NextSyncCommittee = n,
                             !.NextSyncCommitteeBranch = nb.branch,
                             !.FinalizedHeader = f, !.FinalityBranch = fb.branch]]
  ELSE IF g = Nil
       THEN [err |-> ErrMissing("sync_aggregate"),
             l |-> [l EXCEPT !.AttestedHeader = a, !.NextSyncCommittee = n,
                             !.NextSyncCommitteeBranch = nb.branch,
                             !.FinalizedHeader = f, !.FinalityBranch = fb.branch]]
  ELSE IF s = <<>> \/ ~slot.ok
       THEN [err |-> IF s = <<>> THEN ErrMissing("signature_slot") ELSE ErrSlot,
             l |-> [l EXCEPT !.AttestedHeader = a, !.NextSyncCommittee = n,
                             !.NextSyncCommitteeBranch = nb.branch,
                             !.FinalizedHeader = f, !.FinalityBranch = fb.branch,
                             !.SyncAggregate = g]]
  ELSE [err |-> NoErr,
        l |-> [l EXCEPT !.AttestedHeader = a, !.NextSyncCommittee = n,
                        !.NextSyncCommitteeBranch = nb.branch,
                        !.FinalizedHeader = f, !.FinalityBranch = fb.branch,
                        !.SyncAggregate = g, !.SignatureSlot = slot.slot]]

LightClientUpdate_UnmarshalJSON(shape, l, input) ==
  LightClientUpdate_unpack(
    l,
    \/ input.t \notin {"null", "obj"}
    \/ HeaderBad(shape, Field(input, "attested_header"))
    \/ OpaqueBad(Field(input, "next_sync_committee"))
    \/ StringsBad(Field(input, "next_sync_committee_branch"))
    \/ HeaderBad(shape, Field(input, "finalized_header"))
    \/ StringsBad(Field(input, "finality_branch"))
    \/ OpaqueBad(Field(input, "sync_aggregate"))
    \/ StringBad(Field(input, "signature_slot")),
    HeaderPtr(shape, Field(input, "attested_header")),
    OpaquePtr(Field(input, "next_sync_committee")),
    DecodeBranch("next_sync_committee_branch",
                 Field(input, "next_sync_committee_branch"),
                 l.NextSyncCommitteeBranch, FALSE),
    HeaderPtr(shape, Field(input, "finalized_header")),
    DecodeBranch("finality_branch", Field(input, "finality_branch"),
                 l.FinalityBranch, FALSE),
    OpaquePtr(Field(input, "sync_aggregate")),
    StringOf(Field(input, "signature_slot")),
    ParseUint(StringOf(Field(input, "signature_slot"))))

LightClientFinalityUpdate_unpack(l, bad, a, f, fb, g, s, slot) ==
  IF bad THEN [err |-> ErrInvalidJSON, l |-> l]
  ELSE IF a = Nil THEN [err |-> ErrMissing("attested_header"), l |-> l]
  ELSE IF f = Nil
       THEN [err |-> ErrMissing("finalized_header"),
             l |-> [l EXCEPT !.AttestedHeader = a]]
  ELSE IF fb.err # NoErr \/ g = Nil
       THEN [err |-> IF fb.err # NoErr THEN fb.err ELSE ErrMissing("sync_aggregate"),
             l |-> [l EXCEPT !.AttestedHeader = a, !.FinalizedHeader = f,
                             !.FinalityBranch = fb.branch]]
  ELSE IF s = <<>> \/ ~slot.ok
       THEN [err |-> IF s = <<>> THEN ErrMissing("signature_slot") ELSE ErrSlot,
             l |-> [l EXCEPT !.AttestedHeader = a, !.FinalizedHeader = f,
                             !.FinalityBranch = fb.branch, !.SyncAggregate = g]]
  ELSE [err |-> NoErr,
        l |-> [l EXCEPT !.AttestedHeader = a, !.FinalizedHeader = f,
                        !.FinalityBranch = fb.branch, !.SyncAggregate = g,
                        !.SignatureSlot = slot.slot]]

LightClientFinalityUpdate_UnmarshalJSON(shape, l, input) ==
  LightClientFinalityUpdate_unpack(
    l,
    \/ input.t \notin {"null", "obj"}
    \/ HeaderBad(shape, Field(input, "attested_header"))
    \/ HeaderBad(shape, Field(input, "finalized_header"))
    \/ StringsBad(Field(input, "finality_branch"))
    \/ OpaqueBad(Field(input, "sync_aggregate"))
    \/ StringBad(Field(input, "signature_slot")),
    HeaderPtr(shape, Field(input, "attested_header")),
    HeaderPtr(shape, Field(input, "finalized_header")),
    DecodeBranch("finality_branch", Field(input, "finality_branch"),
                 l.FinalityBranch, TRUE),
    OpaquePtr(Field(input, "sync_aggregate")),
    StringOf(Field(input, "signature_slot")),
    ParseUint(StringOf(Field(input, "signature_slot"))))

\* the optimistic update parsing signature_slot without testing it for ""
LightClientOptimisticUpdate_unpack_NoSlotTest(l, bad, a, g, s, slot) ==
  IF bad THEN [err |-> ErrInvalidJSON, l |-> l]
  ELSE IF a = Nil THEN [err |-> ErrMissing("attested_header"), l |-> l]
  ELSE IF g = Nil
       THEN [err |-> ErrMissing("sync_aggregate"),
             l |-> [l EXCEPT !.AttestedHeader = a]]
  ELSE IF ~slot.ok
       THEN [err |-> ErrSlot,
             l |-> [l EXCEPT !.AttestedHeader = a, !.SyncAggregate = g]]
  ELSE [err |-> NoErr,
        l |-> [l EXCEPT !.AttestedHeader = a, !.SyncAggregate = g,
                        !.SignatureSlot = slot.slot]]
LightClientOptimisticUpdate_unpack(l, bad, a, g, s, slot) ==
  IF bad THEN [err |-> ErrInvalidJSON, l |-> l]
  ELSE IF a = Nil THEN [err |-> ErrMissing("attested_header"), l |-> l]
  ELSE IF g = Nil
       THEN [err |-> ErrMissing("sync_aggregate"),
             l |-> [l EXCEPT !.AttestedHeader = a]]
  ELSE IF s = <<>> \/ ~slot.ok
       THEN [err |-> IF s = <<>> THEN ErrMissing("signature_slot") ELSE ErrSlot,
             l |-> [l EXCEPT !.AttestedHeader = a, !.SyncAggregate = g]]
  ELSE [err |-> NoErr,
        l |-> [l EXCEPT !.AttestedHeader = a, !.SyncAggregate = g,
                        !.SignatureSlot = slot.slot]]

LightClientOptimisticUpdate_UnmarshalJSON(shape, l, input) ==
  LightClientOptimisticUpdate_unpack(
    l,
    \/ input.t \notin {"null", "obj"}
    \/ HeaderBad(shape, Field(input, "attested_header"))
    \/ OpaqueBad(Field(input, "sync_aggregate"))
    \/ StringBad(Field(input, "signature_slot")),
    HeaderPtr(shape, Field(input, "attested_header")),
    OpaquePtr(Field(input, "sync_aggregate")),
    StringOf(Field(input, "signature_slot")),
    ParseUint(StringOf(Field(input, "signature_slot"))))

(***************************************************************************)
(* Versioned envelopes and the response metadata.                          *)
(***************************************************************************)
DataVersionUnknown == "unknown"
DataVersionPhase0 == "phase0"
DataVersionAltair == "altair"
DataVersionBellatrix == "bellatrix"
DataVersionCapella == "capella"
DataVersionDeneb == "deneb"
DataVersions ==
  {DataVersionUnknown, DataVersionPhase0, DataVersionAltair, DataVersionBellatrix,
   DataVersionCapella, DataVersionDeneb}

ContentTypeUnknown == "unknown"
ContentTypeSSZ == "ssz"
ContentTypeJSON == "json"
ContentTypes == {ContentTypeUnknown, ContentTypeSSZ, ContentTypeJSON}

\* VersionedLCBootstrap, VersionedLCUpdate, VersionedLCFinalityUpdate and
\* VersionedLCOptimisticUpdate: a Version tag and one slot per fork
Versioned(version) ==
  [Version |-> version, Altair |-> Nil, Bellatrix |-> Nil, Capella |-> Nil,
   Deneb |-> Nil]

Kinds == {"bootstrap", "update", "finality", "optimistic"}

Zero(kind) ==
  CASE kind = "bootstrap" -> ZeroBootstrap
    [] kind = "update" -> ZeroUpdate
    [] kind = "finality" -> ZeroFinalityUpdate
    [] kind = "optimistic" -> ZeroOptimisticUpdate

\* the textual codec of the record of this kind in the package of this shape
UnmarshalJSON(kind, shape, l, input) ==
  CASE kind = "bootstrap" -> LightClientBootstrap_UnmarshalJSON(shape, l, input)
    [] kind = "update" -> LightClientUpdate_UnmarshalJSON(shape, l, input)
    [] kind = "finality" -> LightClientFinalityUpdate_UnmarshalJSON(shape, l, input)
    [] kind = "optimistic" -> LightClientOptimisticUpdate_UnmarshalJSON(shape, l, input)

(***************************************************************************)
(* MarshalJSON.  A nil pointer member is rendered null, an opaque          *)
(* structure as the object it was read from, a branch as the array of the  *)
(* %#x renderings of its elements (an array even when the branch is nil:   *)
(* the strings are made with make), the slot as its decimal digits.        *)
(***************************************************************************)
OpaqueJSON(p) == IF p = Nil THEN JNull ELSE JObj(p.v)
BranchStrings(branch) == JArr([k \in 1..Len(branch) |-> JStr(SprintfHex(branch[k]))])
\* fmt.Sprintf("%d", slot)
SprintfDec(slot) == slot

LightClientHeader_MarshalJSON(shape, l) ==
  IF shape = "altair"
  THEN JObj([beacon |-> OpaqueJSON(l.Beacon), execution |-> JNull,
             execution_branch |-> JNull])
  ELSE JObj([beacon |-> OpaqueJSON(l.Beacon), execution |-> OpaqueJSON(l.Execution),
             execution_branch |-> BranchStrings(l.ExecutionBranch)])
\* encoding/json on a *LightClientHeader member
HeaderJSONOf(shape, p) ==
  IF p = Nil THEN JNull ELSE LightClientHeader_MarshalJSON(shape, p.v)

LightClientBootstrap_MarshalJSON(shape, l) ==
  JObj([header |-> HeaderJSONOf(shape, l.Header),
        current_sync_committee |-> OpaqueJSON(l.CurrentSyncCommittee),
        current_sync_committee_branch |-> BranchStrings(l.CurrentSyncCommitteeBranch)])
\* the update encoder rendering finality_branch from the other branch
LightClientUpdate_MarshalJSON_OneBranch(shape, l) ==
  JObj([attested_header |-> HeaderJSONOf(shape, l.AttestedHeader),
        next_sync_committee |-> OpaqueJSON(l.NextSyncCommittee),
        next_sync_committee_branch |-> BranchStrings(l.NextSyncCommitteeBranch),
        finalized_header |-> HeaderJSONOf(shape, l.FinalizedHeader),
        finality_branch |-> BranchStrings(l.NextSyncCommitteeBranch),
        sync_aggregate |-> OpaqueJSON(l.SyncAggregate),
        signature_slot |-> JStr(SprintfDec(l.SignatureSlot))])
LightClientUpdate_MarshalJSON(shape, l) ==
  JObj([attested_header |-> HeaderJSONOf(shape, l.AttestedHeader),
        next_sync_committee |-> OpaqueJSON(l.NextSyncCommittee),
        next_sync_committee_branch |-> BranchStrings(l.NextSyncCommitteeBranch),
        finalized_header |-> HeaderJSONOf(shape, l.FinalizedHeader),
        finality_branch |-> BranchStrings(l.FinalityBranch),
        sync_aggregate |-> OpaqueJSON(l.SyncAggregate),
        signature_slot |-> JStr(SprintfDec(l.SignatureSlot))])
LightClientFinalityUpdate_MarshalJSON(shape, l) ==
  JObj([attested_header |-> HeaderJSONOf(shape, l.AttestedHeader),
        finalized_header |-> HeaderJSONOf(shape, l.FinalizedHeader),
        finality_branch |-> BranchStrings(l.FinalityBranch),
        sync_aggregate |-> OpaqueJSON(l.SyncAggregate),
        signature_slot |-> JStr(SprintfDec(l.SignatureSlot))])
LightClientOptimisticUpdate_MarshalJSON(shape, l) ==
  JObj([attested_header |-> HeaderJSONOf(shape, l.AttestedHeader),
        sync_aggregate |-> OpaqueJSON(l.SyncAggregate),
        signature_slot |-> JStr(SprintfDec(l.SignatureSlot))])

\* the textual encoder of the record of this kind in the package of this
\* shape
MarshalJSON(kind, shape, l) ==
  CASE kind = "header" -> LightClientHeader_MarshalJSON(shape, l)
    [] kind = "bootstrap" -> LightClientBootstrap_MarshalJSON(shape, l)
    [] kind = "update" -> LightClientUpdate_MarshalJSON(shape, l)
    [] kind = "finality" -> LightClientFinalityUpdate_MarshalJSON(shape, l)
    [] kind = "optimistic" -> LightClientOptimisticUpdate_MarshalJSON(shape, l)

(***************************************************************************)
(* A response body is one of                                               *)
(*   [enc |-> "json", v |-> J]        the bytes of the JSON value J        *)
(*   [enc |-> "ssz", kind, shape, l]  the fixed-layout encoding of record  *)
(*                                    l of this kind and shape             *)
(*   [enc |-> "garbage"]              bytes that are neither               *)
(***************************************************************************)
JSONBody(j) == [enc |-> "json", v |-> j]
SSZBody(kind, shape, l) == [enc |-> "ssz", kind |-> kind, shape |-> shape, l |-> l]
GarbageBody == [enc |-> "garbage"]

\* the binary codec of the record of this kind and shape: it accepts only
\* the layout of that very record
UnmarshalSSZ(kind, shape, body) ==
  IF body.enc = "ssz" /\ body.kind = kind /\ body.shape = shape
  THEN [err |-> NoErr, l |-> body.l]
  ELSE [err |-> ErrSSZ, l |-> Zero(kind)]

\* what a decoder leaves to the version switch: its error and the pointer to
\* its target
Decoded(r) == [err |-> r.err, data |-> Ptr(r.l)]

\* decodeJSONResponse(body, res): parses the top-level object and decodes
\* its data member into res; without a data member res is returned as is
decodeJSONResponse(kind, shape, body) ==
  IF body.enc # "json" \/ body.v.t # "obj"
  THEN [err |-> ErrParseJSON, data |-> Ptr(Zero(kind))]
  ELSE IF body.v.v.data.t = "null"
  THEN [err |-> NoErr, data |-> Ptr(Zero(kind))]
  ELSE Decoded(UnmarshalJSON(kind, shape, Zero(kind), body.v.v.data))

MetadataFromHeaders == [src |-> "headers", version |-> ""]
MetadataFromBody == [src |-> "body", version |-> ""]
MetadataVersion(version) == [src |-> "version", version |-> version]

Response(data, metadata) == Ptr([Data |-> data, Metadata |-> metadata])
Return(response, err) == [response |-> response, err |-> err]

(***************************************************************************)
(* Content negotiation (package http).  res is the httpResponse: its       *)
(* contentType, consensusVersion and body.  got is what the transport      *)
(* s.get returned: an error, no response (nil, nil) or a response.         *)
(*                                                                         *)
(* Every decoder is a switch on the fork version followed by the test of   *)
(* err.  A case of the switch leaves the decoder's error and the envelope  *)
(* with the decoder's target r.data in the slot of the case.               *)
(***************************************************************************)
UnsupportedCase(version) ==
  [err |-> ErrUnsupportedVersion(version), data |-> Versioned(version)]
AltairCase(version, r) ==
  [err |-> r.err, data |-> [Versioned(version) EXCEPT !.Altair = r.data]]
BellatrixCase(version, r) ==
  [err |-> r.err, data |-> [Versioned(version) EXCEPT !.Bellatrix = r.data]]
CapellaCase(version, r) ==
  [err |-> r.err, data |-> [Versioned(version) EXCEPT !.Capella = r.data]]
DenebCase(version, r) ==
  [err |-> r.err, data |-> [Versioned(version) EXCEPT !.Deneb = r.data]]

\* if err != nil { return nil, err }; return response, nil
ResponseOrErr(out, metadata) ==
  IF out.err # NoErr THEN Return(Nil, out.err)
  ELSE Return(Response(out.data, metadata), NoErr)

\* lightClientBootstrapFromSSZ decoding Bellatrix with the Capella shape
lightClientBootstrapFromSSZ_BellatrixAsCapella(res) ==
  ResponseOrErr(
    CASE res.consensusVersion = DataVersionPhase0 -> UnsupportedCase(res.consensusVersion)
      [] res.consensusVersion = DataVersionAltair ->
           AltairCase(res.consensusVersion, Decoded(UnmarshalSSZ("bootstrap", "altair", res.body)))
      [] res.consensusVersion = DataVersionBellatrix ->
           BellatrixCase(res.consensusVersion, Decoded(UnmarshalSSZ("bootstrap", "capella", res.body)))
      [] res.consensusVersion = DataVersionCapella ->
           CapellaCase(res.consensusVersion, Decoded(UnmarshalSSZ("bootstrap", "capella", res.body)))
      [] res.consensusVersion = DataVersionDeneb ->
           DenebCase(res.consensusVersion, Decoded(UnmarshalSSZ("bootstrap", "deneb", res.body)))
      [] OTHER -> UnsupportedCase(res.consensusVersion),
    MetadataFromHeaders)

lightClientBootstrapFromSSZ(res) ==
  ResponseOrErr(
    CASE res.consensusVersion = DataVersionPhase0 -> UnsupportedCase(res.consensusVersion)
      [] res.consensusVersion = DataVersionAltair ->
           AltairCase(res.consensusVersion, Decoded(UnmarshalSSZ("bootstrap", "altair", res.body)))
      [] res.consensusVersion = DataVersionBellatrix ->
           BellatrixCase(res.consensusVersion, Decoded(UnmarshalSSZ("bootstrap", "altair", res.body)))
      [] res.consensusVersion = DataVersionCapella ->
           CapellaCase(res.consensusVersion, Decoded(UnmarshalSSZ("bootstrap", "capella", res.body)))
      [] res.consensusVersion = DataVersionDeneb ->
           DenebCase(res.consensusVersion, Decoded(UnmarshalSSZ("bootstrap", "deneb", res.body)))
      [] OTHER -> UnsupportedCase(res.consensusVersion),
    MetadataFromHeaders)

lightClientBootstrapFromJSON(res) ==
  ResponseOrErr(
    CASE res.consensusVersion = DataVersionPhase0 -> UnsupportedCase(res.consensusVersion)
      [] res.consensusVersion = DataVersionAltair ->
           AltairCase(res.consensusVersion, decodeJSONResponse("bootstrap", "altair", res.body))
      [] res.consensusVersion = DataVersionBellatrix ->
           BellatrixCase(res.consensusVersion, decodeJSONResponse("bootstrap", "altair", res.body))
      [] res.consensusVersion = DataVersionCapella ->
           CapellaCase(res.consensusVersion, decodeJSONResponse("bootstrap", "capella", res.body))
      [] res.consensusVersion = DataVersionDeneb ->
           DenebCase(res.consensusVersion, decodeJSONResponse("bootstrap", "deneb", res.body))
      [] OTHER -> UnsupportedCase(res.consensusVersion),
    MetadataFromBody)

\* LightClientBootstrap turning a missing response into an error
LightClientBootstrap_NilIsError(got) ==
  IF got.err THEN Return(Nil, ErrRequest)
  ELSE IF got.resp = Nil THEN Return(Nil, ErrRequest)
  ELSE LET resp == got.resp.v
       IN CASE
            resp.contentType = ContentTypeSSZ -> lightClientBootstrapFromSSZ(resp)
         [] resp.contentType = ContentTypeJSON -> lightClientBootstrapFromJSON(resp)
         [] OTHER -> Return(Nil, ErrUnhandledContentType(resp.contentType))

LightClientBootstrap(got) ==
  IF got.err THEN Return(Nil, ErrRequest)
  ELSE IF got.resp = Nil THEN Return(Nil, NoErr)
  ELSE LET resp == got.resp.v
       IN CASE
            resp.contentType = ContentTypeSSZ -> lightClientBootstrapFromSSZ(resp)
         [] resp.contentType = ContentTypeJSON -> lightClientBootstrapFromJSON(resp)
         [] OTHER -> Return(Nil, ErrUnhandledContentType(resp.contentType))

\* decodeUpdate with the Bellatrix case filling the Altair slot
decodeUpdate_BellatrixInAltairSlot(version, u) ==
  CASE version = DataVersionPhase0 -> UnsupportedCase(version)
    [] version = DataVersionAltair ->
         AltairCase(version, Decoded(LightClientUpdate_UnmarshalJSON("altair", ZeroUpdate, u)))
    [] version = DataVersionBellatrix ->
         AltairCase(version, Decoded(LightClientUpdate_UnmarshalJSON("altair", ZeroUpdate, u)))
    [] version = DataVersionCapella ->
         CapellaCase(version, Decoded(LightClientUpdate_UnmarshalJSON("capella", ZeroUpdate, u)))
    [] version = DataVersionDeneb ->
         DenebCase(version, Decoded(LightClientUpdate_UnmarshalJSON("deneb", ZeroUpdate, u)))
    [] OTHER -> UnsupportedCase(version)

\* one turn of the loop over the elements of the updates list: the error
\* and the envelope d for element u
decodeUpdate(version, u) ==
  CASE version = DataVersionPhase0 -> UnsupportedCase(version)
    [] version = DataVersionAltair ->
         AltairCase(version, Decoded(LightClientUpdate_UnmarshalJSON("altair", ZeroUpdate, u)))
    [] version = DataVersionBellatrix ->
         BellatrixCase(version, Decoded(LightClientUpdate_UnmarshalJSON("altair", ZeroUpdate, u)))
    [] version = DataVersionCapella ->
         CapellaCase(version, Decoded(LightClientUpdate_UnmarshalJSON("capella", ZeroUpdate, u)))
    [] version = DataVersionDeneb ->
         DenebCase(version, Decoded(LightClientUpdate_UnmarshalJSON("deneb", ZeroUpdate, u)))
    [] OTHER -> UnsupportedCase(version)

\* appendUpdates that skips an element that fails and goes on
RECURSIVE appendUpdates_SkipFailed(_, _, _)
appendUpdates_SkipFailed(version, updates, datas) ==
  IF updates = <<>> THEN [err |-> NoErr, data |-> datas]
  ELSE LET r == decodeUpdate(version, Head(updates))
       IN IF r.err # NoErr THEN appendUpdates_SkipFailed(version, Tail(updates), datas)
          ELSE appendUpdates_SkipFailed(version, Tail(updates), Append(datas, r.data))

\* appendUpdates that puts each new envelope in front of the list
RECURSIVE appendUpdates_Prepend(_, _, _)
appendUpdates_Prepend(version, updates, datas) ==
  IF updates = <<>> THEN [err |-> NoErr, data |-> datas]
  ELSE LET r == decodeUpdate(version, Head(updates))
       IN IF r.err # NoErr THEN [err |-> r.err, data |-> datas]
          ELSE appendUpdates_Prepend(version, Tail(updates), <<r.data>> \o datas)

\* the loop: datas is appended to until an element fails
RECURSIVE appendUpdates(_, _, _)
appendUpdates(version, updates, datas) ==
  IF updates = <<>> THEN [err |-> NoErr, data |-> datas]
  ELSE LET r == decodeUpdate(version, Head(updates))
       IN IF r.err # NoErr THEN [err |-> r.err, data |-> datas]
          ELSE appendUpdates(version, Tail(updates), Append(datas, r.data))

\* the top-level object is parsed, its data member is decoded into a list of
\* raw elements (empty without a data member) and the loop runs over it
\* lightClientUpdatesFromJSON failing on an object without a data member
lightClientUpdatesFromJSON_DataRequired(res) ==
  IF res.body.enc # "json" \/ res.body.v.t # "obj"
  THEN Return(Nil, ErrParseJSON)
  ELSE IF res.body.v.v.data.t # "arr"
  THEN Return(Nil, ErrParseJSON)
  ELSE ResponseOrErr(
         appendUpdates(res.consensusVersion, res.body.v.v.data.v, <<>>),
         MetadataVersion(res.consensusVersion))

lightClientUpdatesFromJSON(res) ==
  IF res.body.enc # "json" \/ res.body.v.t # "obj"
  THEN Return(Nil, ErrParseJSON)
  ELSE IF res.body.v.v.data.t \notin {"null", "arr"}
  THEN Return(Nil, ErrParseJSON)
  ELSE ResponseOrErr(
         appendUpdates(res.consensusVersion,
                       IF res.body.v.v.data.t = "arr" THEN res.body.v.v.data.v
                       ELSE <<>>,
                       <<>>),
         MetadataVersion(res.consensusVersion))

\* LightClientUpdates handing a binary response to the textual decoder
LightClientUpdates_SSZAsJSON(got) ==
  IF got.err THEN Return(Nil, ErrRequest)
  ELSE IF got.resp = Nil THEN Return(Nil, NoErr)
  ELSE LET resp == got.resp.v
       IN CASE
            resp.contentType = ContentTypeSSZ -> lightClientUpdatesFromJSON(resp)
         [] resp.contentType = ContentTypeJSON -> lightClientUpdatesFromJSON(resp)
         [] OTHER -> Return(Nil, ErrUnhandledContentType(resp.contentType))

LightClientUpdates(got) ==
  IF got.err THEN Return(Nil, ErrRequest)
  ELSE IF got.resp = Nil THEN Return(Nil, NoErr)
  ELSE LET resp == got.resp.v
       IN CASE
            resp.contentType = ContentTypeJSON -> lightClientUpdatesFromJSON(resp)
         [] OTHER -> Return(Nil, ErrUnhandledContentType(resp.contentType))

lightClientFinalityUpdateFromSSZ(res) ==
  ResponseOrErr(
    CASE res.consensusVersion = DataVersionPhase0 -> UnsupportedCase(res.consensusVersion)
      [] res.consensusVersion = DataVersionAltair ->
           AltairCase(res.consensusVersion, Decoded(UnmarshalSSZ("finality", "altair", res.body)))
      [] res.consensusVersion = DataVersionBellatrix ->
           BellatrixCase(res.consensusVersion, Decoded(UnmarshalSSZ("finality", "altair", res.body)))
      [] res.consensusVersion = DataVersionCapella ->
           CapellaCase(res.consensusVersion, Decoded(UnmarshalSSZ("finality", "capella", res.body)))
      [] res.consensusVersion = DataVersionDeneb ->
           DenebCase(res.consensusVersion, Decoded(UnmarshalSSZ("finality", "deneb", res.body)))
      [] OTHER -> UnsupportedCase(res.consensusVersion),
    MetadataFromHeaders)

versionedLCFinalityUpdateFromJSON(version, body) ==
  ResponseOrErr(
    CASE version = DataVersionPhase0 -> UnsupportedCase(version)
      [] version = DataVersionAltair ->
           AltairCase(version, decodeJSONResponse("finality", "altair", body))
      [] version = DataVersionBellatrix ->
           BellatrixCase(version, decodeJSONResponse("finality", "altair", body))
      [] version = DataVersionCapella ->
           CapellaCase(version, decodeJSONResponse("finality", "capella", body))
      [] version = DataVersionDeneb ->
           DenebCase(version, decodeJSONResponse("finality", "deneb", body))
      [] OTHER -> UnsupportedCase(version),
    MetadataFromBody)

lightClientFinalityUpdateFromJSON(res) ==
  versionedLCFinalityUpdateFromJSON(res.consensusVersion, res.body)

\* LightClientFinalityUpdate rejecting phase0 before it looks at the encoding
LightClientFinalityUpdate_VersionFirst(got) ==
  IF got.err THEN Return(Nil, ErrRequest)
  ELSE IF got.resp = Nil THEN Return(Nil, NoErr)
  ELSE LET resp == got.resp.v
       IN CASE
            resp.consensusVersion = DataVersionPhase0 ->
              Return(Nil, ErrUnsupportedVersion(resp.consensusVersion))
         [] resp.contentType = ContentTypeSSZ -> lightClientFinalityUpdateFromSSZ(resp)
         [] resp.contentType = ContentTypeJSON -> lightClientFinalityUpdateFromJSON(resp)
         [] OTHER -> Return(Nil, ErrUnhandledContentType(resp.contentType))

LightClientFinalityUpdate(got) ==
  IF got.err THEN Return(Nil, ErrRequest)
  ELSE IF got.resp = Nil THEN Return(Nil, NoErr)
  ELSE LET resp == got.resp.v
       IN CASE
            resp.contentType = ContentTypeSSZ -> lightClientFinalityUpdateFromSSZ(resp)
         [] resp.contentType = ContentTypeJSON -> lightClientFinalityUpdateFromJSON(resp)
         [] OTHER -> Return(Nil, ErrUnhandledContentType(resp.contentType))

lightClientOptimisticUpdateFromSSZ(res) ==
  ResponseOrErr(
    CASE res.consensusVersion = DataVersionPhase0 -> UnsupportedCase(res.consensusVersion)
      [] res.consensusVersion = DataVersionAltair ->
           AltairCase(res.consensusVersion, Decoded(UnmarshalSSZ("optimistic", "altair", res.body)))
      [] res.consensusVersion = DataVersionBellatrix ->
           BellatrixCase(res.consensusVersion, Decoded(UnmarshalSSZ("optimistic", "altair", res.body)))
      [] res.consensusVersion = DataVersionCapella ->
           CapellaCase(res.consensusVersion, Decoded(UnmarshalSSZ("optimistic", "capella", res.body)))
      [] res.consensusVersion = DataVersionDeneb ->
           DenebCase(res.consensusVersion, Decoded(UnmarshalSSZ("optimistic", "deneb", res.body)))
      [] OTHER -> UnsupportedCase(res.consensusVersion),
    MetadataFromHeaders)

versionedLCOptimisticUpdateFromJSON(version, body) ==
  ResponseOrErr(
    CASE version = DataVersionPhase0 -> UnsupportedCase(version)
      [] version = DataVersionAltair ->
           AltairCase(version, decodeJSONResponse("optimistic", "altair", body))
      [] version = DataVersionBellatrix ->
           BellatrixCase(version, decodeJSONResponse("optimistic", "altair", body))
      [] version = DataVersionCapella ->
           CapellaCase(version, decodeJSONResponse("optimistic", "capella", body))
      [] version = DataVersionDeneb ->
           DenebCase(version, decodeJSONResponse("optimistic", "deneb", body))
      [] OTHER -> UnsupportedCase(version),
    MetadataFromBody)

lightClientOptimisticUpdateFromJSON(res) ==
  versionedLCOptimisticUpdateFromJSON(res.consensusVersion, res.body)

\* LightClientOptimisticUpdate turning a missing response into an error
LightClientOptimisticUpdate_NilIsError(got) ==
  IF got.err THEN Return(Nil, ErrRequest)
  ELSE IF got.resp = Nil THEN Return(Nil, ErrRequest)
  ELSE LET resp == got.resp.v
       IN CASE
            resp.contentType = ContentTypeSSZ -> lightClientOptimisticUpdateFromSSZ(resp)
         [] resp.contentType = ContentTypeJSON -> lightClientOptimisticUpdateFromJSON(resp)
         [] OTHER -> Return(Nil, ErrUnhandledContentType(resp.contentType))

LightClientOptimisticUpdate(got) ==
  IF got.err THEN Return(Nil, ErrRequest)
  ELSE IF got.resp = Nil THEN Return(Nil, NoErr)
  ELSE LET resp == got.resp.v
       IN CASE
            resp.contentType = ContentTypeSSZ -> lightClientOptimisticUpdateFromSSZ(resp)
         [] resp.contentType = ContentTypeJSON -> lightClientOptimisticUpdateFromJSON(resp)
         [] OTHER -> Return(Nil, ErrUnhandledContentType(resp.contentType))

(***************************************************************************)
(* Inputs: JSON values a node may send.                                    *)
(***************************************************************************)
\* "0x" and 64 times the hex digit c: a 32-byte hash
Hex32(c) == <<"0", "x">> \o [k \in 1..(2 * HashLen) |-> c]
\* an array of n hashes
BranchJSON(n, c) == JArr([k \in 1..n |-> JStr(Hex32(c))])
\* "0x12acde": valid hex of 3 bytes
ShortHex == <<"0", "x", "1", "2", "a", "c", "d", "e">>

AltairHeaderJSON ==
  JObj([beacon |-> JObj("beacon"), execution |-> JNull, execution_branch |-> JNull])
CapellaHeaderJSON ==
  JObj([beacon |-> JObj("beacon"), execution |-> JObj("execution"),
        execution_branch |-> BranchJSON(ExecutionBranchLen, "e")])

BootstrapJSON(h, branch) ==
  JObj([header |-> h, current_sync_committee |-> JObj("committee"),
        current_sync_committee_branch |-> branch])
UpdateJSON(h, nextBranch, finalityBranch, slot) ==
  JObj([attested_header |-> h, next_sync_committee |-> JObj("committee"),
        next_sync_committee_branch |-> nextBranch, finalized_header |-> h,
        finality_branch |-> finalityBranch, sync_aggregate |-> JObj("aggregate"),
        signature_slot |-> slot])
FinalityUpdateJSON(h, finalityBranch, slot) ==
  JObj([attested_header |-> h, finalized_header |-> h,
        finality_branch |-> finalityBranch, sync_aggregate |-> JObj("aggregate"),
        signature_slot |-> slot])
OptimisticUpdateJSON(h, aggregate, slot) ==
  JObj([attested_header |-> h, sync_aggregate |-> aggregate, signature_slot |-> slot])

GoodBootstrap(h) == BootstrapJSON(h, BranchJSON(SyncCommitteeBranchLen, "c"))
GoodUpdate(h, slot) ==
  UpdateJSON(h, BranchJSON(SyncCommitteeBranchLen, "a"),
             BranchJSON(FinalityBranchLen, "f"), JStr(slot))
GoodFinalityUpdate(h) ==
  FinalityUpdateJSON(h, BranchJSON(FinalityBranchLen, "f"), JStr(<<"1", "2", "3", "4">>))
GoodOptimisticUpdate(h) ==
  OptimisticUpdateJSON(h, JObj("aggregate"), JStr(<<"1", "2", "3", "4">>))

\* an update whose finality branch has one element fewer than declared
ShortFinalityUpdate ==
  UpdateJSON(CapellaHeaderJSON, BranchJSON(SyncCommitteeBranchLen, "a"),
             BranchJSON(FinalityBranchLen - 1, "f"), JStr(<<"3">>))
\* an update whose second finality-branch element decodes to 3 bytes
NarrowElemUpdate ==
  UpdateJSON(CapellaHeaderJSON, BranchJSON(SyncCommitteeBranchLen, "a"),
             JArr(<<JStr(Hex32("f")), JStr(ShortHex)>>), JStr(<<"5">>))

BootstrapInputs ==
  {GoodBootstrap(AltairHeaderJSON), GoodBootstrap(CapellaHeaderJSON),
   BootstrapJSON(CapellaHeaderJSON, JNull), BootstrapJSON(CapellaHeaderJSON, JArr(<<>>)),
   BootstrapJSON(CapellaHeaderJSON, BranchJSON(SyncCommitteeBranchLen - 1, "c")),
   BootstrapJSON(JNull, BranchJSON(SyncCommitteeBranchLen, "c")), JBad}
UpdateInputs ==
  {GoodUpdate(AltairHeaderJSON, <<"1">>), GoodUpdate(CapellaHeaderJSON, <<"2">>),
   ShortFinalityUpdate, NarrowElemUpdate,
   UpdateJSON(JNull, JNull, JNull, JNull)}
FinalityUpdateInputs ==
  {GoodFinalityUpdate(AltairHeaderJSON), GoodFinalityUpdate(CapellaHeaderJSON),
   FinalityUpdateJSON(CapellaHeaderJSON, BranchJSON(FinalityBranchLen - 1, "f"),
                      JStr(<<"7">>)),
   FinalityUpdateJSON(CapellaHeaderJSON, JArr(<<JStr(ShortHex)>>), JStr(<<"7">>)),
   FinalityUpdateJSON(CapellaHeaderJSON, BranchJSON(FinalityBranchLen, "f"), JBad),
   JBad}
OptimisticUpdateInputs ==
  {GoodOptimisticUpdate(AltairHeaderJSON), GoodOptimisticUpdate(CapellaHeaderJSON),
   OptimisticUpdateJSON(CapellaHeaderJSON, JNull, JStr(<<"9">>)),
   OptimisticUpdateJSON(CapellaHeaderJSON, JObj("aggregate"), JStr(<<"-", "1">>)),
   OptimisticUpdateJSON(CapellaHeaderJSON, JObj("aggregate"), JNull),
   JBad}

Inputs(kind) ==
  CASE kind = "bootstrap" -> BootstrapInputs
    [] kind = "update" -> UpdateInputs
    [] kind = "finality" -> FinalityUpdateInputs
    [] kind = "optimistic" -> OptimisticUpdateInputs

Shapes == {"altair", "capella", "deneb"}

\* sequences over S of length 0..n
SeqsUpTo(S, n) == UNION {[1..m -> S] : m \in 0..n}

\* the element counts the ssz-size tags declare: only a record that has them
\* has a fixed-layout encoding
HeaderFixedLayout(shape, h) ==
  shape = "altair" \/ (~h.nil /\ Len(h.v.ExecutionBranch) = ExecutionBranchLen)
FixedLayout(kind, shape, l) ==
  CASE kind = "bootstrap" ->
         /\ HeaderFixedLayout(shape, l.Header)
         /\ Len(l.CurrentSyncCommitteeBranch) = SyncCommitteeBranchLen
    [] kind = "update" ->
         /\ HeaderFixedLayout(shape, l.AttestedHeader)
         /\ HeaderFixedLayout(shape, l.FinalizedHeader)
         /\ Len(l.NextSyncCommitteeBranch) = SyncCommitteeBranchLen
         /\ Len(l.FinalityBranch) = FinalityBranchLen
    [] kind = "finality" ->
         /\ HeaderFixedLayout(shape, l.AttestedHeader)
         /\ HeaderFixedLayout(shape, l.FinalizedHeader)
         /\ Len(l.FinalityBranch) = FinalityBranchLen
    [] kind = "optimistic" -> HeaderFixedLayout(shape, l.AttestedHeader)

\* binary bodies: the encodings of the records the inputs decode to
SSZBodyOf(kind, shape, r) ==
  IF r.err = NoErr /\ FixedLayout(kind, shape, r.l)
  THEN {SSZBody(kind, shape, r.l)} ELSE {}
SSZBodies(kind, shape) ==
  UNION {SSZBodyOf(kind, shape, UnmarshalJSON(kind, shape, Zero(kind), j)) :
           j \in Inputs(kind)}

\* bodies of a single-record response
RecordBodies(kind) ==
  {GarbageBody, JSONBody(JBad), JSONBody(JObj([data |-> JNull]))}
  \cup {JSONBody(JObj([data |-> j])) : j \in Inputs(kind)}
  \cup UNION {SSZBodies(kind, shape) : shape \in Shapes}

\* bodies of an updates response
UpdatesBodies ==
  {GarbageBody, JSONBody(JBad), JSONBody(JObj([data |-> JNull])),
   JSONBody(JObj([data |-> JBad]))}
  \cup {JSONBody(JObj([data |-> JArr(us)])) : us \in SeqsUpTo(UpdateInputs, MaxUpdates)}

\* what the transport can return for a request
Gets(bodies) ==
  {[err |-> TRUE, resp |-> Nil], [err |-> FALSE, resp |-> Nil]}
  \cup {[err |-> FALSE,
         resp |-> Ptr([contentType |-> ct, consensusVersion |-> v, body |-> b])] :
          ct \in ContentTypes, v \in DataVersions, b \in bodies}

(***************************************************************************)
(* The multi-backend dispatcher (package multi).                           *)
(*                                                                         *)
(* Each of the four operations hands doCall a closure that runs the        *)
(* operation on one client, and turns doCall's untyped result back into    *)
(* the operation's own type.  An interface{} value is the untyped nil or a *)
(* dynamic type with a value of that type (a pointer or a slice, possibly  *)
(* nil).  A context is "live" or "canceled".                               *)
(***************************************************************************)
ErrContextCanceled == Err("context canceled", "", -1)

NilInterface == [type |-> "nil", v |-> Nil]
Interface(type, v) == [type |-> type, v |-> v]

TypeLightClientBootstrap == "*altair.LightClientBootstrap"
TypeLightClientUpdates == "[]*altair.LightClientUpdate"
TypeLightClientFinalityUpdate == "*altair.LightClientFinalityUpdate"
TypeLightClientOptimisticUpdate == "*altair.LightClientOptimisticUpdate"

\* client.(consensusclient.LightClientProvider) on client i: the provider,
\* or a run-time panic when the client does not implement it
ProviderAssertion(i, without) == IF i \in without THEN "panic" ELSE "provider"
\* the program has been ended by a panic: no attempt goes on
Crashed(att) == \E i \in DOMAIN att : att[i] = "crashed"

\* a client's operation under the context of the attempt: a request whose
\* context is canceled is given up, any other is answered
ProviderAnswer(ctx, r) ==
  IF ctx = "canceled" THEN Return(Nil, ErrContextCanceled) ELSE r

\* if err != nil { return nil, err }; return bootstrap, nil
CallResult(type, r) ==
  IF r.err # NoErr THEN [res |-> NilInterface, err |-> r.err]
  ELSE [res |-> Interface(type, r.response), err |-> NoErr]

\* the closures: ctx is the context doCall runs the closure with, g what the
\* client's transport has to answer
LightClientBootstrapCall(ctx, g) ==
  CallResult(TypeLightClientBootstrap, ProviderAnswer(ctx, LightClientBootstrap(g)))
LightClientUpdatesCall(ctx, g) ==
  CallResult(TypeLightClientUpdates, ProviderAnswer(ctx, LightClientUpdates(g)))
LightClientFinalityUpdateCall(ctx, g) ==
  CallResult(TypeLightClientFinalityUpdate,
             ProviderAnswer(ctx, LightClientFinalityUpdate(g)))
\* the optimistic-update closure running the client with a context of its own
LightClientOptimisticUpdateCall_Background(ctx, g) ==
  CallResult(TypeLightClientOptimisticUpdate,
             ProviderAnswer("live", LightClientOptimisticUpdate(g)))
LightClientOptimisticUpdateCall(ctx, g) ==
  CallResult(TypeLightClientOptimisticUpdate,
             ProviderAnswer(ctx, LightClientOptimisticUpdate(g)))

call(o, ctx, g) ==
  CASE o = "bootstrap" -> LightClientBootstrapCall(ctx, g)
    [] o = "updates" -> LightClientUpdatesCall(ctx, g)
    [] o = "finality" -> LightClientFinalityUpdateCall(ctx, g)
    [] o = "optimistic" -> LightClientOptimisticUpdateCall(ctx, g)

\* the error handler each operation hands doCall: none
NilErrHandler == [handler |-> "nil"]
LightClientBootstrapErrHandler == NilErrHandler
\* LightClientUpdates handing doCall a handler that never fails over
LightClientUpdatesErrHandler_NoFailover == [handler |-> "no failover"]
LightClientUpdatesErrHandler == NilErrHandler
LightClientFinalityUpdateErrHandler == NilErrHandler
LightClientOptimisticUpdateErrHandler == NilErrHandler

errHandler(o) ==
  CASE o = "bootstrap" -> LightClientBootstrapErrHandler
    [] o = "updates" -> LightClientUpdatesErrHandler
    [] o = "finality" -> LightClientFinalityUpdateErrHandler
    [] o = "optimistic" -> LightClientOptimisticUpdateErrHandler

\* x.(type)
TypeAssertion(x, type) ==
  IF x.type = type THEN [state |-> "returned", res |-> x.v, err |-> NoErr]
  ELSE [state |-> "panic", res |-> Nil, err |-> NoErr]
MultiReturn(res, err) == [state |-> "returned", res |-> res, err |-> err]

\* what each operation does with the result r of doCall
MultiLightClientBootstrap(r) ==
  IF r.err # NoErr THEN MultiReturn(Nil, r.err)
  ELSE IF r.res = NilInterface THEN MultiReturn(Nil, NoErr)
  ELSE TypeAssertion(r.res, TypeLightClientBootstrap)
\* LightClientUpdates asserting a single update instead of the list
MultiLightClientUpdates_WrongType(r) ==
  IF r.err # NoErr THEN MultiReturn(Nil, r.err)
  ELSE IF r.res = NilInterface THEN MultiReturn(Nil, NoErr)
  ELSE TypeAssertion(r.res, "*altair.LightClientUpdate")
MultiLightClientUpdates(r) ==
  IF r.err # NoErr THEN MultiReturn(Nil, r.err)
  ELSE IF r.res = NilInterface THEN MultiReturn(Nil, NoErr)
  ELSE TypeAssertion(r.res, TypeLightClientUpdates)
MultiLightClientFinalityUpdate(r) ==
  IF r.err # NoErr THEN MultiReturn(Nil, r.err)
  ELSE IF r.res = NilInterface THEN MultiReturn(Nil, NoErr)
  ELSE TypeAssertion(r.res, TypeLightClientFinalityUpdate)
\* LightClientOptimisticUpdate reporting a missing record as an error
MultiLightClientOptimisticUpdate_NilIsError(r) ==
  IF r.err # NoErr THEN MultiReturn(Nil, r.err)
  ELSE IF r.res.v = Nil THEN MultiReturn(Nil, Err("empty response", "", -1))
  ELSE TypeAssertion(r.res, TypeLightClientOptimisticUpdate)
MultiLightClientOptimisticUpdate(r) ==
  IF r.err # NoErr THEN MultiReturn(Nil, r.err)
  ELSE IF r.res = NilInterface THEN MultiReturn(Nil, NoErr)
  ELSE TypeAssertion(r.res, TypeLightClientOptimisticUpdate)

MultiResult(o, r) ==
  CASE o = "bootstrap" -> MultiLightClientBootstrap(r)
    [] o = "updates" -> MultiLightClientUpdates(r)
    [] o = "finality" -> MultiLightClientFinalityUpdate(r)
    [] o = "optimistic" -> MultiLightClientOptimisticUpdate(r)

(***************************************************************************)
(* doCall.  It runs the closure on the configured clients in their order;  *)
(* an attempt on a client may start while earlier attempts are still in    *)
(* flight.  The first outcome without error is the result and cancels the  *)
(* other attempts.  An error of a codec, of an unsupported version or of   *)
(* an unhandled encoding is the result at once; a connectivity error is    *)
(* the result only when no other client is left; cancellation by the       *)
(* caller is the result as soon as an attempt reports it.                   *)
(***************************************************************************)
ConnectivityError(err) == err = ErrRequest

\* whether doCall goes on to another client after this error
Failover(handler, err) ==
  IF handler = NilErrHandler THEN ConnectivityError(err) ELSE FALSE

\* the clients an attempt other than i has still to answer for
Remaining(attempt, i) ==
  {j \in DOMAIN attempt : j # i /\ attempt[j] \in {"idle", "inflight"}}

\* the context of the attempts: derived from the caller's, and canceled
\* once the call is decided
AttemptContext(ctx, result) ==
  IF ctx = "canceled" \/ result # Nil THEN "canceled" ELSE "live"

Decision(i, out) == Ptr([res |-> out.res, err |-> out.err, by |-> i])

\* the decision of doCall after attempt i has come back with out
\* doCall letting every outcome replace the decision
doCallOutcome_LastWins(handler, result, attempt, i, out) ==
  IF out.err = NoErr THEN Decision(i, out)
  ELSE IF out.err = ErrContextCanceled THEN Decision(i, out)
  ELSE IF Failover(handler, out.err) /\ Remaining(attempt, i) # {} THEN result
  ELSE Decision(i, out)
\* doCall returning the first error of any kind
doCallOutcome_FailFast(handler, result, attempt, i, out) ==
  IF result # Nil THEN result
  ELSE Decision(i, out)
\* doCall going on to the next client after an error of any kind
doCallOutcome_RetryAll(handler, result, attempt, i, out) ==
  IF result # Nil THEN result
  ELSE IF out.err = NoErr THEN Decision(i, out)
  ELSE IF out.err = ErrContextCanceled THEN Decision(i, out)
  ELSE IF Remaining(attempt, i) # {} THEN Nil
  ELSE Decision(i, out)
doCallOutcome(handler, result, attempt, i, out) ==
  IF result # Nil THEN result
  ELSE IF out.err = NoErr THEN Decision(i, out)
  ELSE IF out.err = ErrContextCanceled THEN Decision(i, out)
  ELSE IF Failover(handler, out.err) /\ Remaining(attempt, i) # {} THEN Nil
  ELSE Decision(i, out)

\* what the transport of a client may answer to the closure of operation o
BackendResponse(ct, v, j) ==
  [err |-> FALSE,
   resp |-> Ptr([contentType |-> ct, consensusVersion |-> v,
                 body |-> JSONBody(JObj([data |-> j]))])]
BackendData(o, good) ==
  CASE o = "bootstrap" ->
         IF good THEN GoodBootstrap(AltairHeaderJSON)
         ELSE BootstrapJSON(JNull, BranchJSON(SyncCommitteeBranchLen, "c"))
    [] o = "updates" ->
         IF good THEN JArr(<<GoodUpdate(AltairHeaderJSON, <<"1">>)>>)
         ELSE JArr(<<UpdateJSON(JNull, JNull, JNull, JNull)>>)
    [] o = "finality" ->
         IF good THEN GoodFinalityUpdate(AltairHeaderJSON)
         ELSE FinalityUpdateJSON(AltairHeaderJSON, JArr(<<JStr(ShortHex)>>),
                                 JStr(<<"7">>))
    [] o = "optimistic" ->
         IF good THEN GoodOptimisticUpdate(AltairHeaderJSON)
         ELSE OptimisticUpdateJSON(AltairHeaderJSON, JNull, JStr(<<"9">>))
\* the answers by class: 1 connectivity error, 2 no data, 3 data, 4 a record
\* the codec rejects, 5 a fork before light-client support, 6 an encoding
\* that is neither binary nor textual
BackendGet(o, k) ==
  CASE k = 1 -> [err |-> TRUE, resp |-> Nil]
    [] k = 2 -> [err |-> FALSE, resp |-> Nil]
    [] k = 3 -> BackendResponse(ContentTypeJSON, DataVersionAltair, BackendData(o, TRUE))
    [] k = 4 -> BackendResponse(ContentTypeJSON, DataVersionAltair, BackendData(o, FALSE))
    [] k = 5 -> BackendResponse(ContentTypeJSON, DataVersionPhase0, BackendData(o, TRUE))
    [] k = 6 -> BackendResponse(ContentTypeUnknown, DataVersionAltair, BackendData(o, TRUE))
AnswerClasses == 1..6
BackendGets(o) == {BackendGet(o, k) : k \in AnswerClasses}

NoOutcome == [res |-> NilInterface, err |-> NoErr]
Pending == [state |-> "pending", res |-> Nil, err |-> NoErr]
Idle == [state |-> "none", res |-> Nil, err |-> NoErr]

(***************************************************************************)
(* The textual codecs called on their own: the record types with their     *)
(* JSON members, and the inputs that differ from a well-formed object in   *)
(* one member or in one element of one branch.                             *)
(***************************************************************************)
RecordKinds == {"header", "bootstrap", "update", "finality", "optimistic"}

\* the members of the JSON form of each record type, and those that are
\* branches
JSONFields(kind, shape) ==
  CASE kind = "header" ->
         IF shape = "altair" THEN {"beacon"}
         ELSE {"beacon", "execution", "execution_branch"}
    [] kind = "bootstrap" ->
         {"header", "current_sync_committee", "current_sync_committee_branch"}
    [] kind = "update" ->
         {"attested_header", "next_sync_committee", "next_sync_committee_branch",
          "finalized_header", "finality_branch", "sync_aggregate", "signature_slot"}
    [] kind = "finality" ->
         {"attested_header", "finalized_header", "finality_branch", "sync_aggregate",
          "signature_slot"}
    [] kind = "optimistic" -> {"attested_header", "sync_aggregate", "signature_slot"}
BranchFields(kind, shape) ==
  JSONFields(kind, shape) \cap
    {"execution_branch", "current_sync_committee_branch", "next_sync_committee_branch",
     "finality_branch"}

\* UnmarshalJSON of the record type into a zero value
Unmarshal(kind, shape, input) ==
  IF kind = "header" THEN LightClientHeader_UnmarshalJSON(shape, ZeroHeader(shape), input)
  ELSE UnmarshalJSON(kind, shape, Zero(kind), input)

HeaderJSON(shape) == IF shape = "altair" THEN AltairHeaderJSON ELSE CapellaHeaderJSON
\* a well-formed object of each record type
GoodInput(kind, shape) ==
  CASE kind = "header" -> HeaderJSON(shape)
    [] kind = "bootstrap" -> GoodBootstrap(HeaderJSON(shape))
    [] kind = "update" -> GoodUpdate(HeaderJSON(shape), <<"1">>)
    [] kind = "finality" -> GoodFinalityUpdate(HeaderJSON(shape))
    [] kind = "optimistic" -> GoodOptimisticUpdate(HeaderJSON(shape))

\* the object with member f replaced by j, and with element i of branch f
\* replaced by the string e
WithField(input, f, j) == JObj([input.v EXCEPT ![f] = j])
WithElem(input, f, i, e) ==
  WithField(input, f, JArr([input.v[f].v EXCEPT ![i] = JStr(e)]))

\* strings for one element of a branch: "", "0x", 3 bytes, 33 bytes, and
\* 32 bytes without the prefix and in upper case
Hex33 == Hex32("a") \o <<"b", "b">>
BareHex32 == [k \in 1..(2 * HashLen) |-> "d"]
UpperHex32 == <<"0", "x">> \o [k \in 1..(2 * HashLen) |-> "D"]
Elems == {<<>>, <<"0", "x">>, ShortHex, Hex33, BareHex32, UpperHex32}

\* the object with the second element of branch f of 3 bytes and its last
\* of 33
TwoNarrow(input, f) ==
  WithElem(WithElem(input, f, 2, ShortHex), f, Len(input.v[f].v), Hex33)

DecodeInputs(kind, shape) ==
  {GoodInput(kind, shape)}
  \cup {WithField(GoodInput(kind, shape), f, JNull) : f \in JSONFields(kind, shape)}
  \cup {WithField(GoodInput(kind, shape), f, JArr(<<>>)) : f \in BranchFields(kind, shape)}
  \cup UNION {{WithElem(GoodInput(kind, shape), f, i, e) :
                 i \in 1..Len(GoodInput(kind, shape).v[f].v), e \in Elems} :
              f \in BranchFields(kind, shape)}
  \cup {TwoNarrow(GoodInput(kind, shape), f) : f \in BranchFields(kind, shape)}

\* the zero value of the record type, and UnmarshalJSON of the record type
\* into a target l
ZeroOf(kind, shape) == IF kind = "header" THEN ZeroHeader(shape) ELSE Zero(kind)
UnmarshalInto(kind, shape, l, input) ==
  IF kind = "header" THEN LightClientHeader_UnmarshalJSON(shape, l, input)
  ELSE UnmarshalJSON(kind, shape, l, input)

\* a second well-formed object of each record type, no value of which is a
\* value of GoodInput, and the record it decodes to
OldHeaderJSON(shape) ==
  IF shape = "altair"
  THEN JObj([beacon |-> JObj("old beacon"), execution |-> JNull,
             execution_branch |-> JNull])
  ELSE JObj([beacon |-> JObj("old beacon"), execution |-> JObj("old execution"),
             execution_branch |-> BranchJSON(ExecutionBranchLen, "1")])
OldInput(kind, shape) ==
  CASE kind = "header" -> OldHeaderJSON(shape)
    [] kind = "bootstrap" ->
         JObj([header |-> OldHeaderJSON(shape),
               current_sync_committee |-> JObj("old committee"),
               current_sync_committee_branch |-> BranchJSON(SyncCommitteeBranchLen, "2")])
    [] kind = "update" ->
         JObj([attested_header |-> OldHeaderJSON(shape),
               next_sync_committee |-> JObj("old committee"),
               next_sync_committee_branch |-> BranchJSON(SyncCommitteeBranchLen, "3"),
               finalized_header |-> OldHeaderJSON(shape),
               finality_branch |-> BranchJSON(FinalityBranchLen, "4"),
               sync_aggregate |-> JObj("old aggregate"),
               signature_slot |-> JStr(<<"7", "7">>)])
    [] kind = "finality" ->
         JObj([attested_header |-> OldHeaderJSON(shape),
               finalized_header |-> OldHeaderJSON(shape),
               finality_branch |-> BranchJSON(FinalityBranchLen, "4"),
               sync_aggregate |-> JObj("old aggregate"),
               signature_slot |-> JStr(<<"7", "7">>)])
    [] kind = "optimistic" ->
         JObj([attested_header |-> OldHeaderJSON(shape),
               sync_aggregate |-> JObj("old aggregate"),
               signature_slot |-> JStr(<<"7", "7">>)])
Populated(kind, shape) == Unmarshal(kind, shape, OldInput(kind, shape)).l
\* the targets UnmarshalJSON is called on: a fresh record and one that holds
\* an earlier decode
Targets(kind, shape) == {ZeroOf(kind, shape), Populated(kind, shape)}

\* strings for signature_slot: 0, 7 with leading zeros, 2^64 - 1, 2^64, a
\* numeral of 21 digits, a negative and a signed numeral, digits followed by
\* a letter
TwoTo64Digits ==
  <<"1","8","4","4","6","7","4","4","0","7","3","7","0","9","5","5","1","6","1","6">>
SlotStrings ==
  {<<"0">>, <<"0", "0", "7">>, MaxUint64Digits, TwoTo64Digits,
   MaxUint64Digits \o <<"0">>, <<"-", "1">>, <<"+", "1">>, <<"1", "2", "a">>}
\* values of the signature_slot member: the strings, the empty string and a
\* value that is not a string
SlotValues == {JStr(d) : d \in SlotStrings} \cup {JStr(<<>>), JBad}
SlotInputs(kind, shape) ==
  IF "signature_slot" \in JSONFields(kind, shape)
  THEN {WithField(GoodInput(kind, shape), "signature_slot", j) : j \in SlotValues}
  ELSE {}

\* the members of each record type in the order UnmarshalJSON checks them
FieldOrder(kind, shape) ==
  CASE kind = "header" ->
         IF shape = "altair" THEN <<"beacon">>
         ELSE <<"beacon", "execution", "execution_branch">>
    [] kind = "bootstrap" ->
         <<"header", "current_sync_committee", "current_sync_committee_branch">>
    [] kind = "update" ->
         <<"attested_header", "next_sync_committee", "next_sync_committee_branch",
           "finalized_header", "finality_branch", "sync_aggregate", "signature_slot">>
    [] kind = "finality" ->
         <<"attested_header", "finalized_header", "finality_branch", "sync_aggregate",
           "signature_slot">>
    [] kind = "optimistic" -> <<"attested_header", "sync_aggregate", "signature_slot">>

\* values a member fails with: absent; for a branch, empty, or with its
\* second element of 3 bytes and its last of 33; for the slot, a negative
\* numeral or a value that is not a string
BadValues(kind, shape, f) ==
  {JNull}
  \cup (IF f \in BranchFields(kind, shape)
        THEN {JArr(<<>>), TwoNarrow(GoodInput(kind, shape), f).v[f]}
        ELSE {})
  \cup (IF f = "signature_slot" THEN {JStr(<<"-", "1">>), JBad} ELSE {})
\* the well-formed object with two failing members, and the object none of
\* whose members is present
TwoFailures(kind, shape) ==
  {WithField(WithField(GoodInput(kind, shape), f1, b1), f2, b2) :
     <<f1, b1, f2, b2>> \in
       {q \in JSONFields(kind, shape) \X (UNION {BadValues(kind, shape, f) :
                                                   f \in JSONFields(kind, shape)})
               \X JSONFields(kind, shape)
               \X (UNION {BadValues(kind, shape, f) : f \in JSONFields(kind, shape)}) :
          /\ q[1] # q[3]
          /\ q[2] \in BadValues(kind, shape, q[1])
          /\ q[4] \in BadValues(kind, shape, q[3])}}
  \cup {JObj([f \in DOMAIN GoodInput(kind, shape).v |-> JNull])}

\* no output of MarshalJSON
NotMarshalled == [t |-> "none"]

\* the branch members of the records in memory
GoBranches ==
  {"ExecutionBranch", "CurrentSyncCommitteeBranch", "NextSyncCommitteeBranch",
   "FinalityBranch"}
\* the record a mock service returns: every pointer set, every branch
\* empty, slot 0
MockRecord(kind, shape) ==
  [f \in DOMAIN Populated(kind, shape) |->
     IF f \in GoBranches THEN <<>>
     ELSE IF f = "SignatureSlot" THEN ZeroSlot
     ELSE Populated(kind, shape)[f]]
\* a record whose first branch elements are of 3 bytes
NarrowRecord(kind, shape) ==
  [f \in DOMAIN Populated(kind, shape) |->
     IF f \in GoBranches
     THEN [Populated(kind, shape)[f] EXCEPT ![1] = <<18, 172, 222>>]
     ELSE Populated(kind, shape)[f]]
\* records in memory: two that were decoded, the zero value, the record of
\* the mock service and, where the elements are [][]byte, the narrow one
Records(kind, shape) ==
  {Populated(kind, shape), Unmarshal(kind, shape, GoodInput(kind, shape)).l,
   ZeroOf(kind, shape), MockRecord(kind, shape)}
  \cup (IF kind = "finality" THEN {} ELSE {NarrowRecord(kind, shape)})

\* a round trip: record x of a record type, its encoding, and the error and
\* the record that decoding the encoding into a fresh target gives
NoRoundTrip ==
  [kind |-> "none", shape |-> "none", stage |-> "none", x |-> Nil,
   text |-> NotMarshalled, err |-> NoErr, y |-> Nil]
Encoded(kind, shape, x) ==
  [kind |-> kind, shape |-> shape, stage |-> "encoded", x |-> x,
   text |-> MarshalJSON(kind, shape, x), err |-> NoErr, y |-> Nil]
Redecoded(r, u) == [r EXCEPT !.stage = "decoded", !.err = u.err, !.y = u.l]

(***************************************************************************)
(* String() of the versioned envelopes: VersionedLCHeader and the four     *)
(* of Versioned(version).  A string is "", "unknown version" or the text   *)
(* of a JSON value.                                                        *)
(***************************************************************************)
EmptyString == [s |-> "", json |-> JNull]
UnknownVersionString == [s |-> "unknown version", json |-> JNull]
\* String() of a record: string(data) of json.Marshal(l)
PayloadString(kind, shape, l) == [s |-> "json", json |-> MarshalJSON(kind, shape, l)]

\* v.Version.NotSupport(v): returns, and leaves the envelope as it is
NotSupport(version, v) == v

\* String rendering the Altair slot of an envelope tagged Bellatrix
String_BellatrixFromAltair(kind, v) ==
  CASE v.Version = DataVersionPhase0 -> EmptyString
    [] v.Version = DataVersionAltair ->
         IF v.Altair = Nil THEN EmptyString
         ELSE PayloadString(kind, "altair", v.Altair.v)
    [] v.Version = DataVersionBellatrix ->
         IF v.Altair = Nil THEN EmptyString
         ELSE PayloadString(kind, "altair", v.Altair.v)
    [] v.Version = DataVersionCapella ->
         IF v.Capella = Nil THEN EmptyString
         ELSE PayloadString(kind, "capella", v.Capella.v)
    [] v.Version = DataVersionDeneb ->
         IF v.Deneb = Nil THEN EmptyString
         ELSE PayloadString(kind, "deneb", v.Deneb.v)
    [] OTHER -> UnknownVersionString

String(kind, v) ==
  CASE v.Version = DataVersionPhase0 -> EmptyString
    [] v.Version = DataVersionAltair ->
         IF v.Altair = Nil THEN EmptyString
         ELSE PayloadString(kind, "altair", v.Altair.v)
    [] v.Version = DataVersionBellatrix ->
         IF v.Bellatrix = Nil THEN EmptyString
         ELSE PayloadString(kind, "altair", v.Bellatrix.v)
    [] v.Version = DataVersionCapella ->
         IF v.Capella = Nil THEN EmptyString
         ELSE PayloadString(kind, "capella", v.Capella.v)
    [] v.Version = DataVersionDeneb ->
         IF v.Deneb = Nil THEN EmptyString
         ELSE PayloadString(kind, "deneb", v.Deneb.v)
    [] OTHER -> UnknownVersionString
\* the envelope once String has returned
AfterString(v) ==
  IF v.Version = DataVersionPhase0 THEN NotSupport(v.Version, v) ELSE v

\* envelopes in memory: any tag, each slot nil or holding a record of its
\* own, no two slots the same record
Payload(kind, version) ==
  CASE version = DataVersionAltair -> Populated(kind, "altair")
    [] version = DataVersionBellatrix -> Unmarshal(kind, "altair", GoodInput(kind, "altair")).l
    [] version = DataVersionCapella -> Populated(kind, "capella")
    [] version = DataVersionDeneb -> Populated(kind, "deneb")
Slots(kind, version) == {Nil, Ptr(Payload(kind, version))}
Envelopes(kind) ==
  {[Version |-> t, Altair |-> a, Bellatrix |-> b, Capella |-> c, Deneb |-> d] :
     t \in DataVersions, a \in Slots(kind, DataVersionAltair),
     b \in Slots(kind, DataVersionBellatrix), c \in Slots(kind, DataVersionCapella),
     d \in Slots(kind, DataVersionDeneb)}
\* a call of String: the envelope type, the envelope before and after the
\* call, and the string returned
NoString == [kind |-> "none", v |-> Nil, after |-> Nil, str |-> EmptyString]
StringCall(kind, v) ==
  [kind |-> kind, v |-> Ptr(v), after |-> Ptr(AfterString(v)), str |-> String(kind, v)]

\* a call of UnmarshalJSON: the record type, the target before the call, the
\* input, the error and the target after the call; out is the output of
\* MarshalJSON on the target once the caller has encoded it again
DecodeCall(kind, shape, old, input) ==
  [kind |-> kind, shape |-> shape, input |-> input,
   err |-> UnmarshalInto(kind, shape, old, input).err,
   old |-> old, l |-> UnmarshalInto(kind, shape, old, input).l,
   out |-> NotMarshalled]
NoDecode ==
  [kind |-> "none", shape |-> "none", input |-> JNull, err |-> NoErr,
   old |-> Nil, l |-> Nil, out |-> NotMarshalled]

(***************************************************************************)
(* The state: the last operation called on the service, what the transport *)
(* returned for it and what the operation returned to its caller.          *)
(***************************************************************************)
VARIABLES op, got, ret

(***************************************************************************)
(* The options of the updates request under way: api.LightClientUpdatesOpts *)
(***************************************************************************)
VARIABLES opts

(***************************************************************************)
(* The state of the dispatcher: the operation it is running (mop, which is *)
(* "crashed" once a panic has ended the program), the                      *)
(* caller's context (ctx), one attempt per configured client with its      *)
(* outcome once it is back (attempt, outs), the decision of doCall         *)
(* (result), what the operation returned to its caller (mret), and the     *)
(* configured clients that do not implement the light-client provider      *)
(* (lacks).                                                                *)
(***************************************************************************)
VARIABLES mop, ctx, attempt, outs, result, mret, lacks

(***************************************************************************)
(* The last call of a codec on its own: the record type, the target before *)
(* the call, the input, the error UnmarshalJSON returned and the target    *)
(* after the call.                                                         *)
(***************************************************************************)
VARIABLES dec

(***************************************************************************)
(* The round trip under way: a record in memory, encoded and decoded       *)
(* again.                                                                  *)
(***************************************************************************)
VARIABLES rt

(***************************************************************************)
(* The last call of String on an envelope.                                 *)
(***************************************************************************)
VARIABLES env
hvars == <<op, got, ret, opts>>
mvars == <<mop, ctx, attempt, outs, result, mret, lacks>>
\* the variables of the codecs and envelopes, and those but dec, but rt and
\* but env
cvars == <<dec, rt, env>>
notDec == <<rt, env>>
notRt == <<dec, env>>
notEnv == <<dec, rt>>
vars == <<op, got, ret, opts, mop, ctx, attempt, outs, result, mret, lacks, dec, rt, env>>

\* no call is under way
Ready ==
  op = "none" /\ mop = "none" /\ dec = NoDecode /\ rt = NoRoundTrip /\ env = NoString

\* the options of the requests a caller may make, and those of no request
LightClientUpdatesOpts ==
  {[StartPeriod |-> MaxCount - c, Count |-> c] : c \in {0, MaxCount}}
NoOpts == [StartPeriod |-> 0, Count |-> 0]

MultiInit ==
  /\ mop = "none"
  /\ ctx = "live"
  /\ attempt = <<>>
  /\ outs = <<>>
  /\ result = Nil
  /\ mret = Idle
  /\ lacks = {}

Init ==
  /\ op = "none"
  /\ got = [err |-> FALSE, resp |-> Nil]
  /\ ret = Return(Nil, NoErr)
  /\ opts = NoOpts
  /\ MultiInit
  /\ dec = NoDecode
  /\ rt = NoRoundTrip
  /\ env = NoString

CallLightClientBootstrap ==
  /\ Ready
  /\ \E g \in Gets(RecordBodies("bootstrap")) :
       /\ op' = "bootstrap"
       /\ got' = g
       /\ ret' = LightClientBootstrap(g)
  /\ opts' = NoOpts
  /\ UNCHANGED mvars
  /\ UNCHANGED cvars

CallLightClientUpdates ==
  /\ Ready
  /\ \E g \in Gets(UpdatesBodies) :
       LET r == LightClientUpdates(g)
       IN \E o \in LightClientUpdatesOpts :
            /\ op' = "updates"
            /\ opts' = o
            /\ got' = g
            /\ ret' = r
  /\ UNCHANGED mvars
  /\ UNCHANGED cvars

CallLightClientFinalityUpdate ==
  /\ Ready
  /\ \E g \in Gets(RecordBodies("finality")) :
       /\ op' = "finality"
       /\ got' = g
       /\ ret' = LightClientFinalityUpdate(g)
  /\ opts' = NoOpts
  /\ UNCHANGED mvars
  /\ UNCHANGED cvars

CallLightClientOptimisticUpdate ==
  /\ Ready
  /\ \E g \in Gets(RecordBodies("optimistic")) :
       /\ op' = "optimistic"
       /\ got' = g
       /\ ret' = LightClientOptimisticUpdate(g)
  /\ opts' = NoOpts
  /\ UNCHANGED mvars
  /\ UNCHANGED cvars

\* the caller has taken the result; the service is ready for the next call
Finish ==
  /\ op # "none"
  /\ op' = "none"
  /\ got' = [err |-> FALSE, resp |-> Nil]
  /\ ret' = Return(Nil, NoErr)
  /\ opts' = NoOpts
  /\ UNCHANGED mvars
  /\ UNCHANGED cvars

\* one of the four operations of the dispatcher is called: doCall takes its
\* copy of the configured clients
Dispatch ==
  /\ Ready
  /\ \E o \in {"bootstrap", "updates", "finality", "optimistic"}, n \in 1..MaxClients :
       /\ mop' = o
       /\ attempt' = [i \in 1..n |-> "idle"]
       /\ outs' = [i \in 1..n |-> NoOutcome]
  /\ ctx' = "live"
  /\ result' = Nil
  /\ mret' = Pending
  /\ lacks' = {}
  /\ UNCHANGED hvars
  /\ UNCHANGED cvars

\* an operation of the dispatcher is called on a service some of whose
\* configured clients do not implement the light-client provider
DispatchWithout ==
  /\ Ready
  /\ \E o \in {"bootstrap", "updates", "finality", "optimistic"}, n \in 1..MaxClients :
       /\ mop' = o
       /\ attempt' = [i \in 1..n |-> "idle"]
       /\ outs' = [i \in 1..n |-> NoOutcome]
       /\ \E L \in (SUBSET (1..n)) \ {{}} : lacks' = L
  /\ ctx' = "live"
  /\ result' = Nil
  /\ mret' = Pending
  /\ UNCHANGED hvars
  /\ UNCHANGED cvars

\* doCall runs the closure on the next client
Start ==
  /\ mop # "none" /\ result = Nil
  /\ \E i \in DOMAIN attempt :
       /\ attempt[i] = "idle"
       /\ \A j \in 1..(i - 1) : attempt[j] # "idle"
       /\ attempt' = [attempt EXCEPT ![i] = "inflight"]
  /\ UNCHANGED <<mop, ctx, outs, result, mret, lacks>>
  /\ UNCHANGED hvars
  /\ UNCHANGED cvars

\* the closure of attempt i comes back with out
Completed(i, out) ==
  /\ outs' = [outs EXCEPT ![i] = out]
  /\ attempt' = [attempt EXCEPT
                   ![i] = IF out.err = ErrContextCanceled THEN "abandoned" ELSE "done"]
  /\ result' = doCallOutcome(errHandler(mop), result, attempt, i, out)

Complete ==
  /\ mop # "none"
  /\ \E i \in DOMAIN attempt :
       /\ attempt[i] = "inflight"
       /\ ProviderAssertion(i, lacks) = "provider"
       /\ \E g \in BackendGets(mop) :
            Completed(i, call(mop, AttemptContext(ctx, result), g))
  /\ UNCHANGED <<mop, ctx, mret, lacks>>
  /\ UNCHANGED hvars
  /\ UNCHANGED cvars

\* the closure of an attempt asserts a client that lacks the capability:
\* the panic is not recovered and ends the program, every attempt and the
\* caller with it
ClosurePanics ==
  /\ mop # "none"
  /\ \E i \in DOMAIN attempt :
       /\ attempt[i] = "inflight"
       /\ ProviderAssertion(i, lacks) = "panic"
  /\ attempt' = [j \in DOMAIN attempt |-> "crashed"]
  /\ mop' = "crashed"
  /\ UNCHANGED <<ctx, outs, result, mret, lacks>>
  /\ UNCHANGED hvars
  /\ UNCHANGED cvars

\* the caller cancels its context
Cancel ==
  /\ mop # "none" /\ mret = Pending /\ ctx = "live"
  /\ ~Crashed(attempt)
  /\ ctx' = "canceled"
  /\ UNCHANGED <<mop, attempt, outs, result, mret, lacks>>
  /\ UNCHANGED hvars
  /\ UNCHANGED cvars

\* doCall returns once it has decided and no attempt is in flight; the
\* operation converts the result
MultiReturns ==
  /\ mop # "none" /\ mret = Pending
  /\ ~Crashed(attempt)
  /\ result # Nil
  /\ \A i \in DOMAIN attempt : attempt[i] # "inflight"
  /\ mret' = MultiResult(mop, result.v)
  /\ UNCHANGED <<mop, ctx, attempt, outs, result, lacks>>
  /\ UNCHANGED hvars
  /\ UNCHANGED cvars

\* the caller has taken the result of the dispatcher
MultiFinish ==
  /\ mop # "none" /\ mret # Pending
  /\ mop' = "none"
  /\ ctx' = "live"
  /\ attempt' = <<>>
  /\ outs' = <<>>
  /\ result' = Nil
  /\ mret' = Idle
  /\ lacks' = {}
  /\ UNCHANGED hvars
  /\ UNCHANGED cvars

\* UnmarshalJSON of a record type is called on an input
Decode ==
  /\ Ready
  /\ \E kind \in RecordKinds, shape \in Shapes :
       \E input \in DecodeInputs(kind, shape) \cup SlotInputs(kind, shape)
                     \cup TwoFailures(kind, shape),
          old \in Targets(kind, shape) :
         dec' = DecodeCall(kind, shape, old, input)
  /\ UNCHANGED hvars
  /\ UNCHANGED mvars
  /\ UNCHANGED notDec

\* the caller encodes the record it has decoded
Marshal ==
  /\ dec # NoDecode
  /\ dec.err = NoErr
  /\ dec.out = NotMarshalled
  /\ dec' = [dec EXCEPT !.out = MarshalJSON(dec.kind, dec.shape, dec.l)]
  /\ UNCHANGED hvars
  /\ UNCHANGED mvars
  /\ UNCHANGED notDec

\* the caller has taken the error
DecodeFinish ==
  /\ dec # NoDecode
  /\ dec' = NoDecode
  /\ UNCHANGED hvars
  /\ UNCHANGED mvars
  /\ UNCHANGED notDec

\* MarshalJSON is called on a record in memory
MarshalRecord ==
  /\ Ready
  /\ \E kind \in RecordKinds, shape \in Shapes :
       \E x \in Records(kind, shape) : rt' = Encoded(kind, shape, x)
  /\ UNCHANGED hvars
  /\ UNCHANGED mvars
  /\ UNCHANGED notRt

\* UnmarshalJSON is called on the encoding, into a fresh record
UnmarshalText ==
  /\ rt.stage = "encoded"
  /\ rt' = Redecoded(rt, Unmarshal(rt.kind, rt.shape, rt.text))
  /\ UNCHANGED hvars
  /\ UNCHANGED mvars
  /\ UNCHANGED notRt

\* the caller has compared the two records
RoundTripFinish ==
  /\ rt.stage = "decoded"
  /\ rt' = NoRoundTrip
  /\ UNCHANGED hvars
  /\ UNCHANGED mvars
  /\ UNCHANGED notRt

\* String is called on an envelope
CallString ==
  /\ Ready
  /\ \E kind \in RecordKinds : \E v \in Envelopes(kind) : env' = StringCall(kind, v)
  /\ UNCHANGED hvars
  /\ UNCHANGED mvars
  /\ UNCHANGED notEnv

\* the caller has taken the string
StringFinish ==
  /\ env # NoString
  /\ env' = NoString
  /\ UNCHANGED hvars
  /\ UNCHANGED mvars
  /\ UNCHANGED notEnv

Next ==
  \/ CallLightClientBootstrap
  \/ CallLightClientUpdates
  \/ CallLightClientFinalityUpdate
  \/ CallLightClientOptimisticUpdate
  \/ Finish
  \/ Dispatch
  \/ DispatchWithout
  \/ Start
  \/ Complete
  \/ ClosurePanics
  \/ Cancel
  \/ MultiReturns
  \/ MultiFinish
  \/ Decode
  \/ Marshal
  \/ DecodeFinish
  \/ MarshalRecord
  \/ UnmarshalText
  \/ RoundTripFinish
  \/ CallString
  \/ StringFinish

Spec == Init /\ [][Next]_vars

\* the dispatcher on its own: the calls of the multi service on clients
\* that all implement the light-client provider
MultiNext ==
  \/ Dispatch
  \/ Start
  \/ Complete
  \/ Cancel
  \/ MultiReturns
  \/ MultiFinish

\* every attempt in flight comes back and doCall returns: the requests of
\* the clients end or time out
FairSpec ==
  Init /\ [][MultiNext]_vars
    /\ WF_vars(Start) /\ WF_vars(Complete) /\ WF_vars(MultiReturns)

(***************************************************************************)
(* Vocabulary of the properties.                                           *)
(***************************************************************************)
Ops == {"bootstrap", "updates", "finality", "optimistic"}
SupportedVersions ==
  {DataVersionAltair, DataVersionBellatrix, DataVersionCapella, DataVersionDeneb}

\* the last call got a response from the transport
HasResponse == op \in Ops /\ ~got.err /\ got.resp # Nil
\* the last call returned a response and no error
Succeeded == HasResponse /\ ret.err = NoErr /\ ret.response # Nil
\* the last call got no response and no error from the transport
NoData == op \in Ops /\ ~got.err /\ got.resp = Nil

\* the payload slot of envelope e for fork v
SlotOf(e, v) ==
  CASE v = DataVersionAltair -> e.Altair
    [] v = DataVersionBellatrix -> e.Bellatrix
    [] v = DataVersionCapella -> e.Capella
    [] v = DataVersionDeneb -> e.Deneb
PopulatedSlots(e) == {v \in SupportedVersions : SlotOf(e, v) # Nil}
\* envelope e is tagged v and holds a payload in the slot of v and no other
ExactlyOneSlot(e, v) == e.Version = v /\ PopulatedSlots(e) = {v}

\* the record shape the packages give fork v
ShapeOf(v) ==
  CASE v = DataVersionAltair -> "altair"
    [] v = DataVersionBellatrix -> "altair"
    [] v = DataVersionCapella -> "capella"
    [] v = DataVersionDeneb -> "deneb"

\* the body of a textual updates response holds a list
HasList(body) == body.enc = "json" /\ body.v.t = "obj" /\ body.v.v.data.t = "arr"
\* the elements of the list of a textual updates response, <<>> when the
\* body holds no list
ListOf(body) ==
  IF HasList(body)
  THEN body.v.v.data.v ELSE <<>>
\* the textual codec rejects element u under fork v
ElementFails(v, u) ==
  UnmarshalJSON("update", ShapeOf(v), ZeroUpdate, u).err # NoErr

(***************************************************************************)
(* C1.  Fork gating: for each of the four operations and for both the      *)
(* binary and the textual encoding, a response tagged phase0 fails with    *)
(* the unsupported-version error and returns no envelope, for every body   *)
(* (for updates also a body whose list has no element).                    *)
(* LightClientUpdates returns an empty list for a phase0 response whose     *)
(* list is empty.                                                          *)
(***************************************************************************)
ForkGating ==
  (/\ HasResponse
   /\ got.resp.v.consensusVersion = DataVersionPhase0
   /\ got.resp.v.contentType \in {ContentTypeSSZ, ContentTypeJSON})
  => (ret.err.kind = "unsupported version" /\ ret.response = Nil)

(***************************************************************************)
(* C2.  Envelope invariant: every envelope returned without error by       *)
(* LightClientBootstrap, LightClientFinalityUpdate and                     *)
(* LightClientOptimisticUpdate, and every element of the list returned by  *)
(* LightClientUpdates, has exactly one non-nil payload slot, the one named *)
(* by its Version tag, and the tag is the fork-version indicator of the    *)
(* response.                                                               *)
(***************************************************************************)
EnvelopeInvariant ==
  Succeeded =>
    IF op = "updates"
    THEN \A k \in 1..Len(ret.response.v.Data) :
           ExactlyOneSlot(ret.response.v.Data[k], got.resp.v.consensusVersion)
    ELSE ExactlyOneSlot(ret.response.v.Data, got.resp.v.consensusVersion)

\* a Bellatrix updates response that returned two envelopes or more
EnvelopeWitness ==
  /\ Succeeded
  /\ op = "updates"
  /\ got.resp.v.consensusVersion = DataVersionBellatrix
  /\ Len(ret.response.v.Data) >= 2

(***************************************************************************)
(* C3.  Updates are all-or-nothing: if decoding any single element of the  *)
(* updates response list fails, LightClientUpdates returns an error and no *)
(* list at all, never a prefix or a subset of the elements that decoded.   *)
(***************************************************************************)
UpdatesAllOrNothing ==
  (/\ HasResponse
   /\ op = "updates"
   /\ got.resp.v.contentType = ContentTypeJSON
   /\ got.resp.v.consensusVersion \in SupportedVersions
   /\ \E k \in 1..Len(ListOf(got.resp.v.body)) :
        ElementFails(got.resp.v.consensusVersion, ListOf(got.resp.v.body)[k]))
  => (ret.err # NoErr /\ ret.response = Nil)

\* the first element decodes, a later one does not, and the call failed
AllOrNothingWitness ==
  /\ HasResponse
  /\ op = "updates"
  /\ got.resp.v.contentType = ContentTypeJSON
  /\ got.resp.v.consensusVersion = DataVersionCapella
  /\ Len(ListOf(got.resp.v.body)) = 3
  /\ ~ElementFails(DataVersionCapella, ListOf(got.resp.v.body)[1])
  /\ ElementFails(DataVersionCapella, ListOf(got.resp.v.body)[2])
  /\ ~ElementFails(DataVersionCapella, ListOf(got.resp.v.body)[3])
  /\ ret.response = Nil

(***************************************************************************)
(* C4.  Updates preserve order and share one fork tag: on success          *)
(* LightClientUpdates returns one envelope per element of the response     *)
(* list, the i-th envelope holds the record decoded from the i-th element, *)
(* and every envelope carries the fork-version indicator of the response.  *)
(***************************************************************************)
UpdatesOrderAndTag ==
  (Succeeded /\ op = "updates") =>
    LET v == got.resp.v.consensusVersion
        list == ListOf(got.resp.v.body)
        datas == ret.response.v.Data
    IN /\ Len(datas) = Len(list)
       /\ \A k \in 1..Len(datas) :
            /\ datas[k].Version = v
            /\ SlotOf(datas[k], v) =
                 Ptr(UnmarshalJSON("update", ShapeOf(v), ZeroUpdate, list[k]).l)

\* three envelopes returned for three elements, the first two different
OrderWitness ==
  /\ Succeeded
  /\ op = "updates"
  /\ Len(ret.response.v.Data) = 3
  /\ ListOf(got.resp.v.body)[1] # ListOf(got.resp.v.body)[2]
  /\ ret.response.v.Data[1] # ret.response.v.Data[2]

BranchElems(u, name) ==
  IF u.t = "obj" /\ u.v[name].t = "arr" THEN u.v[name].v ELSE <<>>

Handled(o) ==
  IF o = "updates" THEN {ContentTypeJSON} ELSE {ContentTypeSSZ, ContentTypeJSON}
UnhandledEncoding == ret.err.kind = "unhandled content type"

Call(o, g) ==
  CASE o = "bootstrap" -> LightClientBootstrap(g)
    [] o = "updates" -> LightClientUpdates(g)
    [] o = "finality" -> LightClientFinalityUpdate(g)
    [] o = "optimistic" -> LightClientOptimisticUpdate(g)
\* the transport outcome g with its response tagged v
Retagged(g, v) == [g EXCEPT !.resp.v.consensusVersion = v]
\* envelope b, tagged Bellatrix, holds what envelope a, tagged Altair, holds
SameAsAltair(b, a) ==
  /\ b.Version = DataVersionBellatrix
  /\ b.Altair = Nil
  /\ b.Bellatrix # Nil
  /\ b.Bellatrix = a.Altair

(***************************************************************************)
(* C8.  Fork sharing: a Bellatrix response is decoded with the Altair      *)
(* record shape.  The same bytes tagged Altair and tagged Bellatrix decode *)
(* to equal records (or fail alike), the Bellatrix one in an envelope      *)
(* tagged Bellatrix whose only populated slot is the Bellatrix slot.       *)
(***************************************************************************)
ForkSharing ==
  (HasResponse /\ got.resp.v.consensusVersion = DataVersionBellatrix) =>
    LET alt == Call(op, Retagged(got, DataVersionAltair))
    IN /\ ret.err = alt.err
       /\ (ret.response = Nil) <=> (alt.response = Nil)
       /\ Succeeded =>
            IF op = "updates"
            THEN /\ Len(ret.response.v.Data) = Len(alt.response.v.Data)
                 /\ \A k \in 1..Len(ret.response.v.Data) :
                      SameAsAltair(ret.response.v.Data[k], alt.response.v.Data[k])
            ELSE SameAsAltair(ret.response.v.Data, alt.response.v.Data)

\* a binary Bellatrix bootstrap response was decoded
ForkSharingWitness ==
  /\ Succeeded
  /\ op = "bootstrap"
  /\ got.resp.v.consensusVersion = DataVersionBellatrix
  /\ got.resp.v.contentType = ContentTypeSSZ
  /\ ret.response.v.Data.Bellatrix # Nil

(***************************************************************************)
(* C9.  No data is not an error: when the transport returns neither an     *)
(* error nor a response, LightClientUpdates, LightClientFinalityUpdate and *)
(* LightClientOptimisticUpdate return a nil result and a nil error.        *)
(***************************************************************************)
NoDataNotAnError ==
  (NoData /\ op \in {"updates", "finality", "optimistic"}) =>
    ret = Return(Nil, NoErr)

\* the optimistic update was asked for and the transport had nothing
NoDataWitness ==
  /\ NoData
  /\ op = "optimistic"
  /\ ret.response = Nil
  /\ ret.err = NoErr

(***************************************************************************)
(* C10.  LightClientBootstrap yields an envelope, as the claim states it:  *)
(* a nil error comes with a populated envelope; there is no no-data        *)
(* success.  The operation returns (nil, nil) for a missing response.      *)
(***************************************************************************)
BootstrapYieldsEnvelope ==
  (op = "bootstrap" /\ ret.err = NoErr) =>
    /\ ret.response # Nil
    /\ PopulatedSlots(ret.response.v.Data) # {}

(***************************************************************************)
(* C10 as amended.  When LightClientBootstrap returns a nil error it       *)
(* returns a populated envelope if the transport returned a response, and  *)
(* a nil result, as the other three operations do, if the transport        *)
(* returned none.                                                          *)
(***************************************************************************)
BootstrapEnvelopeOrNoData ==
  /\ (op = "bootstrap" /\ NoData) => ret = Return(Nil, NoErr)
  /\ (op = "bootstrap" /\ ret.err = NoErr) =>
       IF got.resp = Nil
       THEN ~got.err /\ ret.response = Nil
       ELSE /\ ret.response # Nil
            /\ ExactlyOneSlot(ret.response.v.Data, got.resp.v.consensusVersion)

\* the bootstrap was asked for and the transport had nothing
BootstrapNoDataWitness ==
  /\ NoData
  /\ op = "bootstrap"
  /\ ret = Return(Nil, NoErr)

(***************************************************************************)
(* Vocabulary of the properties of the dispatcher.                         *)
(***************************************************************************)
Dispatching == mop \in Ops
Decided == Dispatching /\ result # Nil
MultiReturned == Dispatching /\ mret.state # "pending"
\* the outcome that decided the call
Deciding == outs[result.v.by]
\* an outcome without error and without a record
NoDataOutcome(out) == out.err = NoErr /\ out.res.v = Nil
DataOutcome(out) == out.err = NoErr /\ out.res.v # Nil
\* an error of a codec, of the fork version or of the encoding
FatalError(err) == err \notin {NoErr, ErrRequest, ErrContextCanceled}
InFlight == {i \in DOMAIN attempt : attempt[i] = "inflight"}
TypeOf(o) ==
  CASE o = "bootstrap" -> TypeLightClientBootstrap
    [] o = "updates" -> TypeLightClientUpdates
    [] o = "finality" -> TypeLightClientFinalityUpdate
    [] o = "optimistic" -> TypeLightClientOptimisticUpdate

(***************************************************************************)
(* C11.  Dispatcher no-data: when the backends that answered a dispatcher  *)
(* operation answered "no data available", the operation returns a nil     *)
(* result with a nil error.  The no-data outcome that decides a call is    *)
(* never returned as an error, and an error that decides a call is never   *)
(* returned as an empty result: it is returned as that error.              *)
(***************************************************************************)
DispatcherNoData ==
  MultiReturned =>
    /\ ((\E i \in DOMAIN attempt : attempt[i] = "done")
        /\ (\A i \in DOMAIN attempt : attempt[i] = "done" => NoDataOutcome(outs[i])))
         => mret = MultiReturn(Nil, NoErr)
    /\ (result.v.err = NoErr /\ NoDataOutcome(Deciding)) => mret = MultiReturn(Nil, NoErr)
    /\ result.v.err # NoErr => mret = MultiReturn(Nil, result.v.err)

\* LightClientOptimisticUpdate of a dispatcher with two backends has
\* returned after a backend answered that it has no data
DispatcherNoDataWitness ==
  /\ MultiReturned
  /\ mop = "optimistic"
  /\ Len(attempt) = 2
  /\ result.v.err = NoErr
  /\ NoDataOutcome(Deciding)
  /\ mret = MultiReturn(Nil, NoErr)

(***************************************************************************)
(* C12.  The first outcome without error decides: the decision of a        *)
(* dispatcher call is the outcome (data or no data) of the one backend     *)
(* that produced an outcome without error, and the operation returns it;   *)
(* once the call is decided no further backend is started, every attempt   *)
(* still in flight ends abandoned, and the decision never changes.         *)
(***************************************************************************)
FirstOutcomeDecides ==
  /\ []((Decided /\ result.v.err = NoErr) =>
          /\ attempt[result.v.by] = "done"
          /\ Deciding = [res |-> result.v.res, err |-> NoErr]
          /\ \A j \in DOMAIN attempt :
               (j # result.v.by /\ attempt[j] = "done") => outs[j].err # NoErr
          /\ mret.state = "returned" => mret = MultiReturn(result.v.res.v, NoErr))
  /\ [][(Decided /\ mop' = mop) =>
          /\ result' = result
          /\ \A j \in DOMAIN attempt :
               /\ attempt[j] = "idle" => attempt'[j] = "idle"
               /\ (attempt[j] = "inflight" /\ attempt'[j] # "inflight")
                    => attempt'[j] = "abandoned"]_vars

\* the second backend decided the call with data while the attempt on the
\* first was in flight, and that attempt was abandoned
FirstOutcomeWitness ==
  /\ MultiReturned
  /\ Len(attempt) = 2
  /\ result.v.by = 2
  /\ DataOutcome(Deciding)
  /\ attempt[1] = "abandoned"
  /\ mret = MultiReturn(result.v.res.v, NoErr)

(***************************************************************************)
(* C13.  Type preservation: a dispatcher operation never fails converting  *)
(* the result of doCall to its own type, for any outcome its closure can   *)
(* produce (a typed nil record included), and a record delivered by doCall *)
(* is returned as that very record, of the type of the operation.          *)
(***************************************************************************)
DispatcherTypePreserved ==
  Dispatching =>
    /\ mret.state # "panic"
    /\ \A k \in AnswerClasses, c \in {"live", "canceled"} :
         MultiResult(mop, call(mop, c, BackendGet(mop, k))).state = "returned"
    /\ (MultiReturned /\ result.v.err = NoErr) =>
         /\ result.v.res.type = TypeOf(mop)
         /\ mret.res = result.v.res.v

\* LightClientUpdates has returned the typed nil list a backend answered
TypedNilWitness ==
  /\ MultiReturned
  /\ mop = "updates"
  /\ result.v.res = Interface(TypeLightClientUpdates, Nil)
  /\ mret = MultiReturn(Nil, NoErr)

(***************************************************************************)
(* C14.  Connectivity failures stay inside the fallback loop: a            *)
(* connectivity error of one backend decides a dispatcher call, and is     *)
(* returned to the caller, only when every configured backend has come     *)
(* back with an error; while a backend is left to try the call stays       *)
(* undecided.                                                              *)
(***************************************************************************)
ConnectivityStaysInside ==
  /\ (Decided /\ ConnectivityError(result.v.err)) =>
       \A i \in DOMAIN attempt : attempt[i] = "done" /\ outs[i].err # NoErr
  /\ (MultiReturned /\ ConnectivityError(mret.err)) =>
       \A i \in DOMAIN attempt : attempt[i] = "done" /\ outs[i].err # NoErr
  /\ (Dispatching /\ Remaining(attempt, 0) # {}
        /\ \A i \in DOMAIN attempt :
             attempt[i] \notin {"idle", "inflight"} =>
               (attempt[i] = "done" /\ ConnectivityError(outs[i].err)))
       => result = Nil

\* the first backend failed to connect and the call returned the data of
\* the second
FailoverWitness ==
  /\ MultiReturned
  /\ Len(attempt) = 2
  /\ attempt[1] = "done"
  /\ ConnectivityError(outs[1].err)
  /\ result.v.by = 2
  /\ DataOutcome(Deciding)
  /\ mret.err = NoErr
  /\ mret.res # Nil

(***************************************************************************)
(* C15.  Codec and compatibility errors are never retried: when an attempt *)
(* comes back with an error of a codec, of an unsupported version or of an *)
(* unhandled encoding, that error decides the call and is what the         *)
(* operation returns, and no further backend is started.                   *)
(***************************************************************************)
FatalErrorsNotRetried ==
  /\ [](Dispatching =>
          \A i \in DOMAIN attempt :
            (attempt[i] = "done" /\ FatalError(outs[i].err)) =>
              /\ result # Nil
              /\ result.v.by = i
              /\ result.v.err = outs[i].err
              /\ mret.state # "pending" => mret = MultiReturn(Nil, outs[i].err))
  /\ [][(Dispatching /\ mop' = mop
          /\ \E i \in DOMAIN attempt : attempt[i] = "done" /\ FatalError(outs[i].err))
         => \A j \in DOMAIN attempt : attempt[j] = "idle" => attempt'[j] = "idle"]_vars

\* the first of two backends answered a record the codec rejects; the call
\* returned that error and the second backend was never started
NotRetriedWitness ==
  /\ MultiReturned
  /\ Len(attempt) = 2
  /\ attempt[1] = "done"
  /\ outs[1].err.kind \in {"missing", "invalid length"}
  /\ attempt[2] = "idle"
  /\ mret = MultiReturn(Nil, outs[1].err)

(***************************************************************************)
(* C16.  Dispatcher cancellation: once the caller has canceled, every      *)
(* attempt that was in flight ends abandoned; a call canceled while its    *)
(* attempts on two backends are in flight eventually returns the           *)
(* cancellation error, and no attempt is in flight when a call has         *)
(* returned.                                                               *)
(***************************************************************************)
TwoPendingCanceled ==
  Dispatching /\ ctx = "canceled" /\ result = Nil /\ Cardinality(InFlight) = 2
CancellationReturned ==
  /\ MultiReturned
  /\ ctx = "canceled"
  /\ mret = MultiReturn(Nil, ErrContextCanceled)
  /\ InFlight = {}
  /\ Cardinality({i \in DOMAIN attempt : attempt[i] = "abandoned"}) >= 2
ErrorClass(err) ==
  CASE err = NoErr -> "none"
    [] ConnectivityError(err) -> "connectivity"
    [] err = ErrContextCanceled -> "canceled"
    [] OTHER -> "fatal"
\* what operation o makes of the decision d of doCall
Verdict(o, d) ==
  IF d = Nil THEN <<"undecided", "none">>
  ELSE IF MultiResult(o, d.v).err # NoErr
  THEN <<"fails", ErrorClass(MultiResult(o, d.v).err)>>
  ELSE IF MultiResult(o, d.v).res = Nil THEN <<"empty", "none">>
  ELSE <<"data", "none">>
DecisionOf(o, i, k) ==
  doCallOutcome(errHandler(o), result, attempt, i,
                call(o, AttemptContext(ctx, result), BackendGet(o, k)))
UniformFallback ==
  Dispatching =>
    \A i \in InFlight, k \in AnswerClasses, o \in Ops :
      IF result = Nil
      THEN Verdict(o, DecisionOf(o, i, k)) = Verdict(mop, DecisionOf(mop, i, k))
      ELSE DecisionOf(o, i, k) = result

\* a finality-update call went on to its second backend after the first
\* failed to connect
UniformFallbackWitness ==
  /\ Dispatching
  /\ mop = "finality"
  /\ Len(attempt) = 2
  /\ attempt[1] = "done"
  /\ ConnectivityError(outs[1].err)
  /\ attempt[2] = "inflight"
  /\ result = Nil

(***************************************************************************)
(* Vocabulary of the properties of the codecs.                             *)
(***************************************************************************)
Decoding == dec # NoDecode
Good == GoodInput(dec.kind, dec.shape)
\* the input is the well-formed object but for member f, which is j
OnlyField(f, j) == dec.input = WithField(Good, f, j)
\* the input is the well-formed object but for element i of branch f,
\* which is e
OnlyElem(f, i, e) == dec.input = WithElem(Good, f, i, e)
Positions(f) == 1..Len(Good.v[f].v)
\* e is valid hex after an optional 0x and decodes to n bytes
DecodesTo(e, n) ==
  /\ HexDecodeString(TrimPrefix0x(e)).ok
  /\ Len(HexDecodeString(TrimPrefix0x(e)).bytes) = n
WrongWidth(e) == \E n \in (0..(HashLen + 1)) \ {HashLen} : DecodesTo(e, n)
\* the record types whose branch loop tests an element against "" first
TestsEmptyElement(kind) == kind \in {"header", "bootstrap", "update"}

(***************************************************************************)
(* C18.  Field-presence completeness: for every record type, in every fork *)
(* shape, and every member f of its JSON form, decoding an object in which *)
(* only f is absent or null and every other member is valid fails with the *)
(* error "<f> missing".                                                    *)
(***************************************************************************)
FieldPresenceComplete ==
  Decoding =>
    \A f \in JSONFields(dec.kind, dec.shape) :
      OnlyField(f, JNull) => dec.err = ErrMissing(f)

\* the Capella optimistic update was decoded without its signature_slot
FieldPresenceWitness ==
  /\ Decoding
  /\ dec.kind = "optimistic"
  /\ dec.shape = "capella"
  /\ OnlyField("signature_slot", JNull)
  /\ dec.err = ErrMissing("signature_slot")

(***************************************************************************)
(* C19.  Empty branch rejection: for every branch member of every record   *)
(* type, decoding an object in which that member is the empty array and    *)
(* every other member is valid fails with "<field> length cannot be 0",    *)
(* which is not the error "<field> missing" of the absent member.          *)
(***************************************************************************)
EmptyBranchRejected ==
  Decoding =>
    \A f \in BranchFields(dec.kind, dec.shape) :
      /\ OnlyField(f, JArr(<<>>)) => dec.err = ErrEmpty(f)
      /\ OnlyField(f, JNull) => dec.err = ErrMissing(f)
      /\ (OnlyField(f, JArr(<<>>)) \/ OnlyField(f, JNull)) =>
           /\ (dec.err = ErrEmpty(f)) # (dec.err = ErrMissing(f))
           /\ (dec.err = ErrEmpty(f)) = OnlyField(f, JArr(<<>>))

\* the bootstrap was decoded with an empty current_sync_committee_branch
EmptyBranchWitness ==
  /\ Decoding
  /\ dec.kind = "bootstrap"
  /\ OnlyField("current_sync_committee_branch", JArr(<<>>))
  /\ dec.err = ErrEmpty("current_sync_committee_branch")

HasSlot == "signature_slot" \in JSONFields(dec.kind, dec.shape)
SlotNumbers ==
  {<<(<<"0">>), (<<"0">>)>>, <<(<<"0", "0", "7">>), (<<"7">>)>>,
   <<MaxUint64Digits, MaxUint64Digits>>}
IsSlotNumber(j) == j.t = "str" /\ \E p \in SlotNumbers : p[1] = j.v
NumberOf(j) == (CHOOSE p \in SlotNumbers : p[1] = j.v)[2]
\* a numeral with a sign, of 2^64 or more, or with a character that is not a
\* digit
BadNumeral(j) == j.t = "str" /\ j.v # <<>> /\ ~IsSlotNumber(j)

Marshalled == Decoding /\ dec.out # NotMarshalled
LowerHex(c) ==
  IF \E k \in 1..16 : UpperHexDigits[k] = c
  THEN HexDigits[CHOOSE k \in 1..16 : UpperHexDigits[k] = c]
  ELSE c
CanonicalElem(e) ==
  <<"0", "x">> \o [k \in 1..Len(TrimPrefix0x(e)) |-> LowerHex(TrimPrefix0x(e)[k])]
CanonicalBranch(j) ==
  IF j.t = "arr" THEN JArr([k \in 1..Len(j.v) |-> JStr(CanonicalElem(j.v[k].v))]) ELSE j
CanonicalHeader(j) ==
  JObj([j.v EXCEPT !["execution_branch"] = CanonicalBranch(@)])
CanonicalMember(f, j) ==
  IF f \in {"execution_branch", "current_sync_committee_branch",
            "next_sync_committee_branch", "finality_branch"}
  THEN CanonicalBranch(j)
  ELSE IF f \in {"header", "attested_header", "finalized_header"}
  THEN CanonicalHeader(j)
  ELSE IF f = "signature_slot" THEN JStr(StripZeros(j.v))
  ELSE j
Canonical(input) == JObj([f \in DOMAIN input.v |-> CanonicalMember(f, input.v[f])])

(***************************************************************************)
(* C22.  Canonical re-encoding: for every record type and every input that *)
(* decodes without error, MarshalJSON of the decoded record is the         *)
(* canonical rendering of the input (branch elements with 0x and in lower  *)
(* case, the slot without leading zeros); it is the input itself when the  *)
(* input is canonical, and decoding and encoding that output returns it    *)
(* again.  The order of the members and the absence of whitespace are      *)
(* those of encoding/json on the JSON structs.                             *)
(***************************************************************************)
CanonicalReencoding ==
  Marshalled =>
    /\ dec.out = Canonical(dec.input)
    /\ dec.input = Canonical(dec.input) => dec.out = dec.input
    /\ Unmarshal(dec.kind, dec.shape, dec.out).err = NoErr
    /\ MarshalJSON(dec.kind, dec.shape, Unmarshal(dec.kind, dec.shape, dec.out).l)
         = dec.out

\* the update whose third finality-branch element is in upper case was
\* decoded and encoded, and the output is not the input
CanonicalReencodingWitness ==
  /\ Marshalled
  /\ dec.kind = "update"
  /\ OnlyElem("finality_branch", 3, UpperHex32)
  /\ dec.out # dec.input
  /\ dec.out = WithElem(Good, "finality_branch", 3, Hex32("d"))

(***************************************************************************)
(* Vocabulary of the round trip.                                           *)
(***************************************************************************)
RoundTripped == rt.stage = "decoded"
\* every pointer of the header is set and its branch, if it has one, is not
\* empty and holds elements of 32 bytes
WholeBranch(b) == Len(b) > 0 /\ \A k \in 1..Len(b) : Len(b[k]) = HashLen
WholeHeader(h) ==
  \A f \in DOMAIN h : IF f \in GoBranches THEN WholeBranch(h[f]) ELSE h[f] # Nil
\* the same of a record, headers included
Whole(x) ==
  \A f \in DOMAIN x :
    IF f \in GoBranches THEN WholeBranch(x[f])
    ELSE IF f = "SignatureSlot" THEN TRUE
    ELSE IF f \in {"Header", "AttestedHeader", "FinalizedHeader"}
    THEN x[f] # Nil /\ WholeHeader(x[f].v)
    ELSE x[f] # Nil

(***************************************************************************)
(* C23.  Decode inverts encode, as the claim states it: for every record   *)
(* type and every record x in memory, decoding the encoding of x succeeds  *)
(* and gives a record equal to x.  The record of the mock service, whose   *)
(* branches are empty, encodes to an object its decoder rejects.           *)
(***************************************************************************)
DecodeInvertsEncodeAnyRecord ==
  RoundTripped => (rt.err = NoErr /\ rt.y = rt.x)

(***************************************************************************)
(* C23 as amended.  For every record type and every record x in memory     *)
(* whose pointer members are all set and whose branches are not empty and  *)
(* hold elements of 32 bytes, decoding the encoding of x succeeds and      *)
(* gives a record equal to x.                                              *)
(***************************************************************************)
DecodeInvertsEncode ==
  (RoundTripped /\ Whole(rt.x)) => (rt.err = NoErr /\ rt.y = rt.x)

\* a Capella update in memory was encoded and decoded into an equal record
DecodeInvertsEncodeWitness ==
  /\ RoundTripped
  /\ rt.kind = "update"
  /\ rt.shape = "capella"
  /\ rt.x = Populated("update", "capella")
  /\ Whole(rt.x)
  /\ rt.y = rt.x

(***************************************************************************)
(* C24.  Bounded updates list, as the claim states it: the list that       *)
(* LightClientUpdates(startPeriod, count) returns without error has at     *)
(* most count elements, whatever the number of elements of the response.   *)
(* The operation writes count into the URL of the request and returns one  *)
(* element per element of the response.                                    *)
(***************************************************************************)
BoundedUpdates ==
  (op = "updates" /\ Succeeded) => Len(ret.response.v.Data) <= opts.Count


(***************************************************************************)
(* C26.  A failed textual decode leaves its target unchanged, as the claim *)
(* states it: when UnmarshalJSON returns an error, every field of the      *)
(* target has the value it had before the call.  UnmarshalJSON assigns     *)
(* each member to the target as soon as that member has passed its own     *)
(* checks, before it looks at the next one.                                *)
(***************************************************************************)
FailedDecodeLeavesTarget ==
  (dec # NoDecode /\ dec.err # NoErr) => dec.l = dec.old


(***************************************************************************)
(* C27.  Deterministic first-failure reporting.  The error a member fails  *)
(* with is the error of a well-formed object in which that member alone is *)
(* replaced by the input's; likewise for one element of a branch.          *)
(***************************************************************************)
Order == FieldOrder(dec.kind, dec.shape)
\* a well-formed object of the record type, its branches of one element
SmallHeader ==
  IF dec.shape = "altair" THEN AltairHeaderJSON
  ELSE WithField(CapellaHeaderJSON, "execution_branch", BranchJSON(1, "e"))
Small ==
  JObj([f \in DOMAIN Good.v |->
          IF f \in BranchFields(dec.kind, dec.shape) THEN BranchJSON(1, "b")
          ELSE IF f \in {"header", "attested_header", "finalized_header"}
          THEN SmallHeader
          ELSE Good.v[f]])
Alone(f) ==
  UnmarshalInto(dec.kind, dec.shape, ZeroOf(dec.kind, dec.shape),
                WithField(Small, f, Field(dec.input, f))).err
ElemAlone(f, k) ==
  UnmarshalInto(dec.kind, dec.shape, ZeroOf(dec.kind, dec.shape),
                WithField(Small, f,
                          JArr([Good.v[f].v EXCEPT ![k] = Field(dec.input, f).v[k]]))).err
\* the indices of the sequence of errors that are errors, and the least
Bad(errs) == {k \in 1..Len(errs) : errs[k] # NoErr}
Least(S) == CHOOSE k \in S : \A m \in S : k <= m
Failing == Bad([k \in 1..Len(Order) |-> Alone(Order[k])])
\* member f of the input is an array of as many strings as the well-formed
\* object has
WholeBranchOfStrings(f) ==
  /\ Field(dec.input, f).t = "arr"
  /\ Len(Field(dec.input, f).v) = Len(Good.v[f].v)
  /\ \A k \in Positions(f) : Field(dec.input, f).v[k].t = "str"
\* the error is that of the first failing member in the order of the
\* checks, and when that member is a branch, the error of its lowest
\* failing element
ReportsFirstFailure ==
  /\ LET errs == [k \in 1..Len(Order) |-> Alone(Order[k])]
         bad == Bad(errs)
     IN dec.err = (IF bad = {} THEN NoErr ELSE errs[Least(bad)])
  /\ \A f \in BranchFields(dec.kind, dec.shape) :
       (dec.err.field = f /\ WholeBranchOfStrings(f)) =>
         LET errs == [k \in Positions(f) |-> ElemAlone(f, k)]
             bad == Bad(errs)
         IN bad # {} /\ dec.err = errs[Least(bad)]
\* json.Unmarshal has filled the JSON form of the record from the input
ParsedIntoJSONForm == dec.err # ErrInvalidJSON
SeveralFail == Cardinality(Failing) >= 2

\* C27 as the claim states it: whatever the input, the error is that of the
\* first failing member in the order attested_header, next_sync_committee,
\* next_sync_committee_branch, finalized_header, finality_branch,
\* sync_aggregate, signature_slot, and members after it have no influence.
FirstFailureAnyInput ==
  dec # NoDecode => ReportsFirstFailure

\* C27, amended: for an input that json.Unmarshal has parsed into the JSON
\* form of the record (no member of a JSON type its field cannot take, every
\* nested header decoding), the error is that of the first failing member in
\* the order of the checks and, within a branch, of the lowest failing
\* index; later members do not influence it.
FirstFailure ==
  (dec # NoDecode /\ ParsedIntoJSONForm) => ReportsFirstFailure

\* a finality branch with two bad elements in an update whose signature
\* slot is bad too: the error names element 1 of the finality branch
FirstFailureWitness ==
  /\ dec.kind = "update"
  /\ dec.input = WithField(TwoNarrow(Good, "finality_branch"), "signature_slot",
                           JStr(<<"-", "1">>))
  /\ SeveralFail
  /\ dec.err = ErrInvalidLength("finality_branch", 1)


(***************************************************************************)
(* C28.  Backends without the capability do not crash the dispatcher, as   *)
(* the claim states it: an operation of the dispatcher on a service with a *)
(* client that does not implement the light-client provider never ends     *)
(* abnormally.  The closures assert the capability with the one-value form *)
(* of the type assertion.                                                  *)
(***************************************************************************)
NoCrashWithoutCapability ==
  (mop # "none" /\ lacks # {}) => ~Crashed(attempt)


(***************************************************************************)
(* C29.  Envelope rendering follows the tag only: for each of the five     *)
(* versioned envelope types, String() returns the string of the payload    *)
(* slot selected by the Version tag, the empty string when that slot is    *)
(* nil or the tag is phase0, and "unknown version" for a tag outside the   *)
(* five generations; the slots other than the tagged one never affect the  *)
(* result, and String() does not modify the envelope.                      *)
(***************************************************************************)
StringCalled == env # NoString
Tag == env.v.v.Version
\* the envelope with every slot but that of its tag emptied
OnlyTagged(v) ==
  [f \in DOMAIN v |->
     IF f = "Version" THEN v.Version
     ELSE IF v.Version \in SupportedVersions /\ v[f] = SlotOf(v, v.Version) THEN v[f]
     ELSE Nil]
UpdatesWithoutData ==
  /\ op = "updates"
  /\ HasResponse
  /\ got.resp.v.contentType = ContentTypeJSON
  /\ got.resp.v.body.enc = "json"
  /\ got.resp.v.body.v.t = "obj"
  /\ got.resp.v.body.v.v.data \in {JNull, JArr(<<>>)}
EmptyUpdatesResponse ==
  UpdatesWithoutData =>
    /\ ret.err = NoErr
    /\ ret.response # Nil
    /\ ret.response.v.Data = <<>>
    /\ ret.response.v.Metadata = MetadataVersion(got.resp.v.consensusVersion)

\* a response tagged deneb whose object has no data member
EmptyUpdatesResponseWitness ==
  /\ UpdatesWithoutData
  /\ got.resp.v.consensusVersion = DataVersionDeneb
  /\ got.resp.v.body.v.v.data = JNull
  /\ ret = Return(Response(<<>>, MetadataVersion(DataVersionDeneb)), NoErr)

=============================================================================
